---- MODULE Spec2Model ----
(***************************************************************************)
(* almost-yolo-guard: the deterministic rule engine (rules.go), the hook   *)
(* client (client.go, hook.go) and the companion daemon (daemon.go).       *)
(*                                                                         *)
(* Strings are TLC strings handled character by character: SubSeq(s,i,i)   *)
(* is the i-th character, \o is concatenation, Len the length.             *)
(***************************************************************************)
EXTENDS Integers, Sequences, FiniteSets, TLC

VARIABLES
    \* --- rule engine call ---
    toolName,     \* tool_name handed to EvaluateRules
    toolInput,    \* tool_input as decoded JSON (see JSON values below)
    workDir,      \* cwd handed to EvaluateRules
    home,         \* the HOME environment variable read by os.Getenv
    cmdParts,     \* the segments the Bash command was joined from
    rpc,          \* "build" | "done" (SpecRules), "client", "daemon"
    result,       \* [v |-> verdict, r |-> reason] once rpc = "done"
    \* --- hook client (SpecClient) ---
    hook,         \* the hook client process (runClient)
    \* --- companion daemons (Spec) ---
    daemon,       \* per daemon: position in Run, listener, shuttingDown, wg,
                  \* evaluator
    sdown,        \* per daemon and Shutdown caller: position in Shutdown
    conns,        \* per client: its connection to a daemon
    backlog,      \* per daemon: established connections awaiting Accept
    fsSock,       \* what the socket path refers to
    fsPid,        \* what the pidfile holds
    obs           \* observations (history) used to state the properties

rulesVars == <<toolName, toolInput, workDir, home, cmdParts, rpc, result>>
daemonVars == <<daemon, sdown, conns, backlog, fsSock, fsPid, obs>>
sysVars   == <<hook, daemon, sdown, conns, backlog, fsSock, fsPid, obs>>
vars      == <<toolName, toolInput, workDir, home, cmdParts, rpc, result,
               hook, daemon, sdown, conns, backlog, fsSock, fsPid, obs>>

(***************************************************************************)
(* Go standard library string functions used by the rule engine.           *)
(***************************************************************************)
Ch(s, i) == SubSeq(s, i, i)

Drop(s, n) == SubSeq(s, n + 1, Len(s))

HasPrefix(s, p) == Len(s) >= Len(p) /\ SubSeq(s, 1, Len(p)) = p

HasSuffix(s, p) == Len(s) >= Len(p) /\ SubSeq(s, Len(s) - Len(p) + 1, Len(s)) = p

Contains(s, sub) ==
    \E i \in 1..(Len(s) - Len(sub) + 1) : SubSeq(s, i, i + Len(sub) - 1) = sub

IsSpace(c) == c \in {" ", "\t", "\n", "\r", "\f"}

Min(S) == CHOOSE x \in S : \A y \in S : x <= y

Max(S) == CHOOSE x \in S : \A y \in S : x >= y

\* The elements of a finite set of integers in increasing order.
SortedSeq(S) ==
    [k \in 1..Cardinality(S) |-> CHOOSE x \in S : Cardinality({y \in S : y < x}) = k - 1]

\* for i := lo; i <= hi; i++ { st = Body(st, i) }, evaluated by halving the
\* index range so that the evaluation depth stays logarithmic in hi - lo
\* (the comparison has the first half computed before the second starts).
RECURSIVE Loop(_, _, _, _)
Loop(Body(_, _), st, lo, hi) ==
    IF lo > hi THEN st
    ELSE IF lo = hi THEN Body(st, lo)
    ELSE LET mid  == (lo + hi) \div 2
             left == Loop(Body, st, lo, mid)
         IN  IF left = left THEN Loop(Body, left, mid + 1, hi) ELSE left

\* strings.TrimSpace
TrimSpace(s) ==
    LET keep == {i \in 1..Len(s) : ~IsSpace(Ch(s, i))}
    IN  IF keep = {} THEN "" ELSE SubSeq(s, Min(keep), Max(keep))

\* strings.Fields: the maximal runs of non-space characters, in order.
Fields(s) ==
    LET n      == Len(s)
        starts == SortedSeq({i \in 1..n : ~IsSpace(Ch(s, i))
                                           /\ (i = 1 \/ IsSpace(Ch(s, i - 1)))})
        ends   == SortedSeq({i \in 1..n : ~IsSpace(Ch(s, i))
                                           /\ (i = n \/ IsSpace(Ch(s, i + 1)))})
    IN  [k \in 1..Len(starts) |-> SubSeq(s, starts[k], ends[k])]

\* strings.Join(words, sep)
JoinStr(words, sep) ==
    Loop(LAMBDA acc, i : IF i = 1 THEN words[1] ELSE acc \o sep \o words[i],
         "", 1, Len(words))

LowerLetters == "abcdefghijklmnopqrstuvwxyz"
UpperLetters == "ABCDEFGHIJKLMNOPQRSTUVWXYZ"

LetterIndex(c, letters) ==
    IF \E i \in 1..Len(letters) : Ch(letters, i) = c
    THEN CHOOSE i \in 1..Len(letters) : Ch(letters, i) = c
    ELSE 0

\* Every letter of `from` replaced by the letter of `to` at the same place.
MapCase(s, from, to) ==
    Loop(LAMBDA acc, i : LET k == LetterIndex(Ch(s, i), from)
                         IN  acc \o (IF k = 0 THEN Ch(s, i) ELSE Ch(to, k)),
         "", 1, Len(s))

ToLower(s) == MapCase(s, UpperLetters, LowerLetters)
ToUpper(s) == MapCase(s, LowerLetters, UpperLetters)

\* Split on "/" (every separator splits, empty elements kept).
SplitSlash(s) ==
    LET seps == SortedSeq({i \in 1..Len(s) : Ch(s, i) = "/"})
        k    == Len(seps)
    IN  [j \in 1..(k + 1) |->
            SubSeq(s, IF j = 1 THEN 1 ELSE seps[j - 1] + 1,
                      IF j = k + 1 THEN Len(s) ELSE seps[j] - 1)]

\* filepath.Clean's element stack: "." and empty elements are dropped, ".."
\* removes the previous element when there is one that is not "..", is dropped
\* at the root of a rooted path, and is kept otherwise.
CleanStep(elems, rooted, out, i) ==
    LET e == elems[i] IN
    IF e = "" \/ e = "." THEN out
    ELSE IF e = ".."
         THEN IF Len(out) > 0 /\ out[Len(out)] # ".."
              THEN SubSeq(out, 1, Len(out) - 1)
              ELSE IF rooted THEN out ELSE Append(out, e)
         ELSE Append(out, e)

CleanElems(elems, rooted) ==
    Loop(LAMBDA out, i : CleanStep(elems, rooted, out, i), <<>>, 1, Len(elems))

\* filepath.Clean (Unix)
CleanResult(rooted, body) ==
    IF rooted THEN "/" \o body
    ELSE IF body = "" THEN "." ELSE body

CleanRooted(path, rooted) ==
    CleanResult(rooted, JoinStr(CleanElems(SplitSlash(path), rooted), "/"))

Clean(path) ==
    IF path = "" THEN "." ELSE CleanRooted(path, Ch(path, 1) = "/")

\* filepath.IsAbs (Unix)
IsAbs(path) == HasPrefix(path, "/")

\* filepath.Join(a, b): empty elements are ignored, the rest is joined with
\* "/" and cleaned; all empty gives "".
PathJoin(a, b) ==
    IF a = "" /\ b = "" THEN ""
    ELSE IF a = "" THEN Clean(b)
    ELSE IF b = "" THEN Clean(a)
    ELSE Clean(a \o "/" \o b)

StripTrailingSlashes(s) ==
    LET keep == {i \in 1..Len(s) : Ch(s, i) # "/"}
    IN  IF keep = {} THEN "" ELSE SubSeq(s, 1, Max(keep))

\* filepath.Base (Unix)
Base(path) ==
    IF path = "" THEN "."
    ELSE LET p == StripTrailingSlashes(path) IN
         IF p = "" THEN "/"
         ELSE LET elems == SplitSlash(p) IN elems[Len(elems)]

(***************************************************************************)
(* Verdicts (protocol.go) and the result pair (Verdict, reason).           *)
(***************************************************************************)
VerdictAllow == 0
VerdictAsk == 1
VerdictUncertain == 2

R(v, reason) == [v |-> v, r |-> reason]

\* "no verdict yet" inside the loops over arguments
NoVerdict == [v |-> -1, r |-> ""]

\* Verdict.String
VerdictString(v) ==
    IF v = VerdictAllow THEN "ALLOW" ELSE IF v = VerdictAsk THEN "ASK" ELSE "UNCERTAIN"

\* Index of the first element of args satisfying P, 0 when there is none:
\* the "for _, arg := range args { if ... return }" idiom of the handlers.
MinOrZero(S) == IF S = {} THEN 0 ELSE Min(S)

FirstIdx(args, P(_)) == MinOrZero({i \in 1..Len(args) : P(args[i])})

(***************************************************************************)
(* Compound command splitting and base command extraction.                 *)
(***************************************************************************)
\* A splitter for which every quote character opens or closes its quotes,
\* whatever quotes it is inside of
SplitStepToggling(s, st, i) ==
    LET ch == Ch(s, i) IN
    IF st.skip THEN [st EXCEPT !.skip = FALSE]
    ELSE IF ch = "'"
    THEN [st EXCEPT !.inSingleQuote = ~@, !.cur = @ \o ch]
    ELSE IF ch = "\""
    THEN [st EXCEPT !.inDoubleQuote = ~@, !.cur = @ \o ch]
    ELSE IF st.inSingleQuote \/ st.inDoubleQuote
    THEN [st EXCEPT !.cur = @ \o ch]
    ELSE IF ch = "&" /\ i + 1 <= Len(s) /\ Ch(s, i + 1) = "&"
    THEN [st EXCEPT !.segments = Append(@, st.cur), !.cur = "", !.skip = TRUE]
    ELSE IF ch = "|" /\ i + 1 <= Len(s) /\ Ch(s, i + 1) = "|"
    THEN [st EXCEPT !.segments = Append(@, st.cur), !.cur = "", !.skip = TRUE]
    ELSE IF ch = "|"
    THEN [st EXCEPT !.segments = Append(@, st.cur), !.cur = ""]
    ELSE IF ch = ";"
    THEN [st EXCEPT !.segments = Append(@, st.cur), !.cur = ""]
    ELSE [st EXCEPT !.cur = @ \o ch]

\* One iteration of the splitter's loop over the characters.  skip is set
\* when the second character of && or || is to be passed over (the i++ in
\* the loop body).
SplitStep(s, st, i) ==
    LET ch == Ch(s, i) IN
    IF st.skip THEN [st EXCEPT !.skip = FALSE]
    ELSE IF ch = "'" /\ ~st.inDoubleQuote
    THEN [st EXCEPT !.inSingleQuote = ~@, !.cur = @ \o ch]
    ELSE IF ch = "\"" /\ ~st.inSingleQuote
    THEN [st EXCEPT !.inDoubleQuote = ~@, !.cur = @ \o ch]
    ELSE IF st.inSingleQuote \/ st.inDoubleQuote
    THEN [st EXCEPT !.cur = @ \o ch]
    ELSE IF ch = "&" /\ i + 1 <= Len(s) /\ Ch(s, i + 1) = "&"
    THEN [st EXCEPT !.segments = Append(@, st.cur), !.cur = "", !.skip = TRUE]
    ELSE IF ch = "|" /\ i + 1 <= Len(s) /\ Ch(s, i + 1) = "|"
    THEN [st EXCEPT !.segments = Append(@, st.cur), !.cur = "", !.skip = TRUE]
    ELSE IF ch = "|"
    THEN [st EXCEPT !.segments = Append(@, st.cur), !.cur = ""]
    ELSE IF ch = ";"
    THEN [st EXCEPT !.segments = Append(@, st.cur), !.cur = ""]
    ELSE [st EXCEPT !.cur = @ \o ch]

splitCompoundCommand(command) ==
    LET st == Loop(LAMBDA acc, i : SplitStep(command, acc, i),
                   [segments |-> <<>>, cur |-> "", inSingleQuote |-> FALSE,
                    inDoubleQuote |-> FALSE, skip |-> FALSE],
                   1, Len(command))
    IN  IF Len(st.cur) > 0 THEN Append(st.segments, st.cur) ELSE st.segments

\* The test of the "skip leading env var assignments" loops: the word is
\* an assignment (FOO=bar) and the loop goes on past it.
IsAssignment(w) ==
    Contains(w, "=") /\ ~HasPrefix(w, "-") /\ ~HasPrefix(w, "/") /\ ~HasPrefix(w, ".")

\* startIdx of extractBaseCommand / extractArgs: index (1-based) of the first
\* word that is not an assignment, 0 when every word is one.
StartIdx(words) == FirstIdx(words, LAMBDA w : ~IsAssignment(w))

\* The 'env' prefix: index of the first word after env (at st) that holds
\* no "=", 0 when there is none.
EnvCommandIdx(words, st) ==
    MinOrZero({i \in (st + 1)..Len(words) : ~Contains(words[i], "=")})

BaseAt(words, k) == IF k = 0 THEN "" ELSE Base(words[k])

\* extractBaseCommand once the words and startIdx (1-based, 0: every word is
\* an assignment) are known
BaseFrom(words, st) ==
    IF Len(words) = 0 \/ st = 0 THEN ""
    ELSE IF words[st] = "env" THEN BaseAt(words, EnvCommandIdx(words, st))
    ELSE Base(words[st])

BaseOfWords(words) == BaseFrom(words, StartIdx(words))

extractBaseCommand(segment) == BaseOfWords(Fields(segment))

ArgsAfter(words, k) == IF k = 0 THEN <<>> ELSE SubSeq(words, k + 1, Len(words))

ArgsFrom(words, st) ==
    IF Len(words) = 0 \/ st = 0 THEN <<>>
    ELSE IF words[st] = "env" THEN ArgsAfter(words, EnvCommandIdx(words, st))
    ELSE SubSeq(words, st + 1, Len(words))

ArgsOfWords(words) == ArgsFrom(words, StartIdx(words))

extractArgs(segment) == ArgsOfWords(Fields(segment))

ShellInterpreters ==
    {"bash", "sh", "zsh", "fish", "python", "python3", "perl", "ruby", "node"}

isPipeToShell(segment) == extractBaseCommand(TrimSpace(segment)) \in ShellInterpreters

alwaysSafeCommands ==
    {"cat", "head", "tail", "less", "more", "file", "stat", "wc", "od", "xxd", "strings",
     "ls", "tree", "locate", "du", "df",
     "grep", "rg", "ag", "ack", "fzf",
     "awk", "cut", "sort", "uniq", "tr", "diff", "comm", "jq", "yq",
     "whoami", "id", "groups", "hostname", "uname", "date", "uptime", "which", "type",
     "where", "env", "printenv", "echo", "printf", "pwd", "realpath", "dirname",
     "basename", "true", "false", "test", "[",
     "ping", "dig", "nslookup", "host",
     "ps", "top", "htop", "pgrep", "lsof",
     "tar", "zip", "unzip", "gzip", "gunzip",
     "open", "pbcopy", "pbpaste",
     "tmux", "screen",
     "make", "cmake", "bazel",
     "sleep", "seq", "pre-commit", "prettier", "eslint", "golangci-lint",
     "tsc", "jest", "pytest", "phpunit",
     "kustomize", "asdf", "access-gke"}

isAlwaysSafe(cmd) == cmd \in alwaysSafeCommands

alwaysAskCommands == {"sudo", "eval", "dd", "systemctl", "launchctl"}

isAlwaysAsk(cmd) == cmd \in alwaysAskCommands

(***************************************************************************)
(* Path helpers.                                                           *)
(***************************************************************************)
\* The test by string prefix alone, without the separator
StringPrefix(p, dir) == HasPrefix(p, dir)

EqualOrUnder(p, dir) == p = dir \/ HasPrefix(p, dir \o "/")

isWithinDir(path, dir) ==
    IF dir = "" THEN FALSE ELSE EqualOrUnder(Clean(path), Clean(dir))

systemPrefixes == <<"/etc", "/usr", "/var", "/sys", "/proc", "/boot", "/sbin">>

\* isSystemPath with the prefix + "/" tests left out: equality only
SystemPathMatchExact(p, h) ==
    \/ \E i \in 1..Len(systemPrefixes) : p = systemPrefixes[i]
    \/ /\ h # ""
       /\ \E f \in {".bashrc", ".bash_profile", ".zshrc", ".zprofile", ".profile",
                     ".ssh", ".gnupg", ".aws"} : p = PathJoin(h, f)

\* isSystemPath after path = filepath.Clean(path) and home = os.Getenv("HOME")
SystemPathMatch(p, h) ==
    \/ \E i \in 1..Len(systemPrefixes) : EqualOrUnder(p, systemPrefixes[i])
    \/ /\ h # ""
       /\ \/ \E f \in {".bashrc", ".bash_profile", ".zshrc", ".zprofile", ".profile"} :
                p = PathJoin(h, f)
          \/ \E sd \in {".ssh", ".gnupg", ".aws"} : EqualOrUnder(p, PathJoin(h, sd))

isSystemPath(path) == SystemPathMatch(Clean(path), home)

(***************************************************************************)
(* Special command handlers.                                               *)
(***************************************************************************)
\* The shape shared by the sub-command tables: no sub-command, a safe one,
\* one that asks, anything else.
SubCmdTable(name, args, safe, ask, none) ==
    IF Len(args) = 0 THEN none
    ELSE IF args[1] \in safe THEN R(VerdictAllow, name \o " " \o args[1])
    ELSE IF args[1] \in ask THEN R(VerdictAsk, name \o " " \o args[1])
    ELSE R(VerdictUncertain, name \o " " \o args[1])

\* A force test that misses the short flag
IsForceFlagLongOnly(arg) == arg = "--force" \/ arg = "--force-with-lease"

IsForceFlag(arg) == arg = "--force" \/ arg = "-f" \/ arg = "--force-with-lease"

IsDeleteFlag(arg) == arg = "--delete" \/ arg = "-d"

TargetsMain(arg) ==
    LET lower == ToLower(arg) IN
    lower = "main" \/ lower = "master" \/ HasSuffix(lower, ":main") \/ HasSuffix(lower, ":master")

evaluateGitPush(args) ==
    LET isForce  == \E i \in 1..Len(args) : IsForceFlag(args[i])
        isDelete == \E i \in 1..Len(args) : IsDeleteFlag(args[i])
        positionalArgs == SelectSeq(args, LAMBDA a : ~HasPrefix(a, "-"))
        k == FirstIdx(positionalArgs, TargetsMain)
    IN  IF ~isForce /\ ~isDelete THEN R(VerdictAllow, "git push (no force)")
        ELSE IF k # 0 /\ isForce
             THEN R(VerdictAsk, "git push --force to " \o positionalArgs[k])
        ELSE IF k # 0
             THEN R(VerdictAsk, "git push --delete " \o positionalArgs[k])
        ELSE IF Len(positionalArgs) >= 2
             THEN R(VerdictAllow, "git push to non-main branch")
        ELSE IF isForce
             THEN R(VerdictUncertain, "git push --force without explicit branch")
        ELSE R(VerdictUncertain, "git push --delete without explicit target")

gitSafeSubcmds ==
    {"status", "diff", "log", "show", "branch", "fetch", "stash", "add",
     "commit", "pull", "clone", "checkout", "rebase", "merge", "cherry-pick", "tag",
     "remote", "reflog", "rev-parse", "ls-files", "config", "init", "worktree",
     "bisect", "blame", "shortlog", "describe", "clean", "reset", "switch", "restore"}

evaluateGit(args) ==
    IF Len(args) = 0 THEN R(VerdictAllow, "git (no subcommand)")
    ELSE IF args[1] \in gitSafeSubcmds THEN R(VerdictAllow, "git " \o args[1])
    ELSE IF args[1] = "push" THEN evaluateGitPush(Tail(args))
    ELSE R(VerdictUncertain, "git " \o args[1])

evaluateKubectlDelete(args) ==
    IF \E i \in 1..Len(args) : args[i] \in {"pod", "pods", "po"}
    THEN R(VerdictAllow, "kubectl delete pod")
    ELSE R(VerdictAsk, "kubectl delete (non-pod resource)")

kubectlSafeSubcmds ==
    {"get", "describe", "logs", "top", "explain", "api-resources", "api-versions",
     "config", "cluster-info", "version", "auth", "port-forward"}

kubectlWriteSubcmds ==
    {"apply", "create", "replace", "patch", "edit", "scale", "rollout", "exec",
     "cp", "run", "expose", "set", "label", "annotate", "taint", "cordon",
     "uncordon", "drain"}

evaluateKubectl(args) ==
    IF Len(args) # 0 /\ args[1] \notin kubectlSafeSubcmds /\ args[1] = "delete"
    THEN evaluateKubectlDelete(Tail(args))
    ELSE SubCmdTable("kubectl", args, kubectlSafeSubcmds, kubectlWriteSubcmds,
                     R(VerdictAllow, "kubectl (no subcommand)"))

rmDangerousPaths ==
    {"/", "/etc", "/usr", "/var", "/home", "/Users"} \cup (IF home # "" THEN {home} ELSE {})

\* absTarget of evaluateRm, evaluateTee: the argument made absolute
AbsOf(arg, wd) == Clean(IF ~IsAbs(arg) THEN PathJoin(wd, arg) ELSE arg)

\* The reason evaluateRm's loop asks for a target, "" when it passes it
RmAsk(target, absTarget, hasRecursive, wd) ==
    IF absTarget \in rmDangerousPaths THEN "rm targeting dangerous path: "
    ELSE IF hasRecursive /\ Contains(target, "..") THEN "rm -r with parent traversal: "
    ELSE IF hasRecursive /\ wd # "" /\ ~isWithinDir(absTarget, wd)
    THEN "rm -r outside project: "
    ELSE ""

RmAskAt(targets, k, hasRecursive, wd) ==
    IF k = 0 THEN R(VerdictAllow, "rm within project")
    ELSE R(VerdictAsk, RmAsk(targets[k], AbsOf(targets[k], wd), hasRecursive, wd)
                          \o targets[k])

RmTargets(targets, hasRecursive, wd) ==
    RmAskAt(targets,
            FirstIdx(targets, LAMBDA t : RmAsk(t, AbsOf(t, wd), hasRecursive, wd) # ""),
            hasRecursive, wd)

RmOf(targets, hasRecursive, wd) ==
    IF Len(targets) = 0 THEN R(VerdictAllow, "rm with no targets")
    ELSE RmTargets(targets, hasRecursive, wd)

evaluateRm(args, wd) ==
    RmOf(SelectSeq(args, LAMBDA a : ~HasPrefix(a, "-")),
         \E i \in 1..Len(args) :
            HasPrefix(args[i], "-") /\ (Contains(args[i], "r") \/ Contains(args[i], "R")),
         wd)

RECURSIVE ChmodLoop(_, _, _)
ChmodLoop(args, i, hasRecursive) ==
    IF i > Len(args) THEN R(VerdictAllow, "chmod")
    ELSE LET rec == hasRecursive \/ args[i] = "-R" \/ args[i] = "--recursive" IN
         IF args[i] = "777" \/ args[i] = "a+rwx"
         THEN (IF rec THEN R(VerdictAsk, "chmod -R 777") ELSE R(VerdictUncertain, "chmod 777"))
         ELSE ChmodLoop(args, i + 1, rec)

evaluateChmod(args) == ChmodLoop(args, 1, FALSE)

evaluateChown(args) ==
    IF \E i \in 1..Len(args) : args[i] = "-R" \/ args[i] = "--recursive"
    THEN R(VerdictUncertain, "chown -R")
    ELSE R(VerdictAllow, "chown")

evaluateGhSub(parent, args, safeCmds) ==
    IF Len(args) = 0 THEN R(VerdictAllow, "gh " \o parent)
    ELSE IF args[1] \in safeCmds THEN R(VerdictAllow, "gh " \o parent \o " " \o args[1])
    ELSE R(VerdictUncertain, "gh " \o parent \o " " \o args[1])

evaluateGhRepo(args) ==
    SubCmdTable("gh repo", args, {"view", "clone", "fork", "list"}, {"delete"},
                R(VerdictAllow, "gh repo"))

evaluateGh(args) ==
    IF Len(args) = 0 THEN R(VerdictUncertain, "gh (no subcommand)")
    ELSE IF args[1] = "pr"
    THEN evaluateGhSub(args[1], Tail(args),
                       {"view", "list", "create", "checks", "diff", "ready", "comment",
                        "checkout", "status"})
    ELSE IF args[1] = "issue"
    THEN evaluateGhSub(args[1], Tail(args), {"view", "list", "create", "comment", "status"})
    ELSE IF args[1] = "run"
    THEN evaluateGhSub(args[1], Tail(args), {"view", "list", "watch", "download"})
    ELSE IF args[1] = "repo" THEN evaluateGhRepo(Tail(args))
    ELSE IF args[1] \in {"api", "auth"} THEN R(VerdictAllow, "gh " \o args[1])
    ELSE R(VerdictUncertain, "gh " \o args[1])

gcloudReadVerbs == {"list", "describe", "info", "get-iam-policy"}

gcloudWriteVerbs ==
    {"create", "delete", "update", "deploy", "ssh", "set-iam-policy",
     "add-iam-policy-binding", "remove-iam-policy-binding"}

evaluateGcloud(args) ==
    IF Len(args) = 0 THEN R(VerdictUncertain, "gcloud (no args)")
    ELSE IF args[1] = "config"
    THEN (IF Len(args) > 1 /\ (args[2] = "list" \/ args[2] = "get-value")
          THEN R(VerdictAllow, "gcloud config read")
          ELSE R(VerdictUncertain, "gcloud config"))
    ELSE LET k == FirstIdx(args, LAMBDA a : a \in gcloudReadVerbs \cup gcloudWriteVerbs) IN
         IF k = 0 THEN R(VerdictUncertain, "gcloud command")
         ELSE IF args[k] \in gcloudReadVerbs THEN R(VerdictAllow, "gcloud read operation")
         ELSE R(VerdictAsk, "gcloud write operation: " \o args[k])

bqWriteKeywords == <<"INSERT", "UPDATE", "DELETE", "DROP", "CREATE", "ALTER", "TRUNCATE">>

evaluateBq(args) ==
    LET k == FirstIdx(args, LAMBDA a : a \in {"ls", "show", "head", "query"}) IN
    IF k = 0 THEN R(VerdictUncertain, "bq command")
    ELSE IF args[k] # "query" THEN R(VerdictAllow, "bq read operation")
    ELSE LET fullCmd == ToUpper(JoinStr(args, " "))
             w       == FirstIdx(bqWriteKeywords, LAMBDA kw : Contains(fullCmd, kw))
         IN  IF w # 0 THEN R(VerdictAsk, "bq write query: " \o bqWriteKeywords[w])
             ELSE R(VerdictAllow, "bq query (SELECT)")

AwsRead(arg) ==
    HasPrefix(arg, "describe-") \/ HasPrefix(arg, "list-") \/ HasPrefix(arg, "get-")

AwsWrite(arg) ==
    \/ HasPrefix(arg, "create-") \/ HasPrefix(arg, "delete-") \/ HasPrefix(arg, "update-")
    \/ HasPrefix(arg, "put-") \/ HasPrefix(arg, "run-")

evaluateAws(args) ==
    LET k == FirstIdx(args, LAMBDA a : AwsRead(a) \/ AwsWrite(a)) IN
    IF k = 0 THEN R(VerdictUncertain, "aws command")
    ELSE IF AwsRead(args[k]) THEN R(VerdictAllow, "aws read operation")
    ELSE R(VerdictAsk, "aws write operation: " \o args[k])

evaluateSed(args) ==
    IF \E i \in 1..Len(args) :
          \/ args[i] = "-i" \/ args[i] = "--in-place"
          \/ (HasPrefix(args[i], "-") /\ Contains(args[i], "i") /\ ~HasPrefix(args[i], "--"))
    THEN R(VerdictUncertain, "sed with in-place edit")
    ELSE R(VerdictAllow, "sed (read-only)")

FileCmdAt(cmd, args, k) ==
    IF k # 0 THEN R(VerdictAsk, cmd \o " targeting system path: " \o args[k])
    ELSE R(VerdictAllow, cmd \o " (safe)")

evaluateFileCmd(cmd, args, wd) ==
    FileCmdAt(cmd, args,
              FirstIdx(args, LAMBDA a :
                  ~HasPrefix(a, "-")
                  /\ isSystemPath(IF ~IsAbs(a) THEN PathJoin(wd, a) ELSE a)))

sshFlagsWithValue ==
    {"-b", "-c", "-D", "-E", "-e", "-F", "-I", "-i", "-J", "-L",
     "-l", "-m", "-O", "-o", "-p", "-Q", "-R", "-S", "-W", "-w"}

RECURSIVE SSHLoop(_, _, _, _)
SSHLoop(args, i, positionalCount, skipNext) ==
    IF i > Len(args) THEN R(VerdictAllow, "ssh (interactive)")
    ELSE IF skipNext THEN SSHLoop(args, i + 1, positionalCount, FALSE)
    ELSE IF args[i] \in sshFlagsWithValue THEN SSHLoop(args, i + 1, positionalCount, TRUE)
    ELSE IF HasPrefix(args[i], "-") THEN SSHLoop(args, i + 1, positionalCount, FALSE)
    ELSE IF positionalCount + 1 > 1 THEN R(VerdictUncertain, "ssh with remote command")
    ELSE SSHLoop(args, i + 1, positionalCount + 1, FALSE)

evaluateSSH(args) == SSHLoop(args, 1, 0, FALSE)

evaluateDockerCompose(args) ==
    SubCmdTable("docker-compose", args,
                {"up", "build", "pull", "start", "ps", "logs", "config", "images",
                 "top", "version", "ls", "port", "create", "events"},
                {}, R(VerdictAllow, "docker-compose (no subcommand)"))

evaluateDocker(args) ==
    IF Len(args) # 0 /\ args[1] = "compose" THEN evaluateDockerCompose(Tail(args))
    ELSE SubCmdTable("docker", args,
                     {"ps", "logs", "images", "inspect", "stats", "top", "history", "info",
                      "version", "build", "pull", "tag", "login", "logout", "search",
                      "events", "diff", "port", "wait", "cp", "create", "start"},
                     {}, R(VerdictAllow, "docker (no subcommand)"))

evaluateNodePkgMgr(cmd, args) ==
    SubCmdTable(cmd, args,
                {"install", "i", "ci", "add", "remove", "uninstall", "rm",
                 "test", "t", "run", "start", "build", "dev", "lint", "format",
                 "update", "upgrade", "outdated", "list", "ls", "info", "view",
                 "init", "create", "exec", "audit", "cache", "config",
                 "pack", "version", "why", "dedupe", "prune", "rebuild",
                 "link", "unlink"},
                {"publish"}, R(VerdictAllow, cmd \o " (no subcommand)"))

evaluatePip(cmd, args) ==
    SubCmdTable(cmd, args,
                {"install", "uninstall", "list", "show", "freeze", "check", "config",
                 "cache", "debug", "inspect", "download", "wheel", "hash", "search",
                 "index"},
                {}, R(VerdictAllow, cmd \o " (no subcommand)"))

evaluateRuntime(cmd, args) ==
    IF Len(args) = 0 THEN R(VerdictAllow, cmd \o " (REPL)")
    ELSE IF \E i \in 1..Len(args) : args[i] \in {"-c", "-e", "--eval"}
    THEN R(VerdictUncertain, cmd \o " with inline code")
    ELSE R(VerdictAllow, cmd \o " (script)")

evaluateGo(args) ==
    SubCmdTable("go", args,
                {"build", "test", "vet", "fmt", "mod", "generate", "install", "get",
                 "clean", "env", "version", "doc", "tool", "work", "run", "fix", "list"},
                {}, R(VerdictAllow, "go (no subcommand)"))

evaluateCargo(args) ==
    SubCmdTable("cargo", args,
                {"build", "test", "check", "clippy", "fmt", "doc", "clean", "update",
                 "bench", "run", "new", "init", "add", "remove", "install", "search",
                 "tree", "vendor", "fix", "fetch", "metadata", "verify-project"},
                {"publish"}, R(VerdictAllow, "cargo (no subcommand)"))

evaluateHelm(args) ==
    SubCmdTable("helm", args,
                {"list", "ls", "get", "status", "show", "template", "lint", "version",
                 "repo", "search", "history", "env", "dependency", "plugin", "verify",
                 "pull", "package", "create"},
                {"install", "upgrade", "uninstall", "delete", "rollback", "test"},
                R(VerdictAllow, "helm (no subcommand)"))

evaluateFind(args) ==
    LET k == FirstIdx(args, LAMBDA a : a \in {"-exec", "-execdir", "-delete", "-ok", "-okdir"})
    IN  IF k # 0 THEN R(VerdictUncertain, "find with " \o args[k])
        ELSE R(VerdictAllow, "find (read-only)")

\* What evaluateTee's loop returns for one argument, NoVerdict when it goes on
TeeArg(arg, absPath, wd) ==
    IF HasPrefix(arg, "-") THEN NoVerdict
    ELSE IF isSystemPath(absPath) THEN R(VerdictAsk, "tee to system path: " \o arg)
    ELSE IF wd # "" /\ ~isWithinDir(absPath, wd)
    THEN R(VerdictUncertain, "tee outside project: " \o arg)
    ELSE NoVerdict

TeeAt(args, k, wd) ==
    IF k = 0 THEN R(VerdictAllow, "tee within project")
    ELSE TeeArg(args[k], AbsOf(args[k], wd), wd)

evaluateTee(args, wd) ==
    TeeAt(args, FirstIdx(args, LAMBDA a : TeeArg(a, AbsOf(a, wd), wd) # NoVerdict), wd)

evaluatePackageManager(cmd, args) ==
    SubCmdTable(cmd, args,
                {"install", "add", "update", "upgrade", "search", "info", "show", "list",
                 "outdated", "deps", "leaves", "uses", "doctor", "cleanup", "autoremove",
                 "cache", "config", "tap", "untap"},
                {}, R(VerdictAllow, cmd \o " (no subcommand)"))

(***************************************************************************)
(* Segment and command evaluation.                                         *)
(***************************************************************************)
RECURSIVE evaluateCommand(_, _)
RECURSIVE evaluateSegment(_, _)
RECURSIVE CommandLoop(_, _, _, _)

\* Number of leading arguments of timeout that start with "-".
RECURSIVE LeadingFlags(_, _)
LeadingFlags(args, i) ==
    IF i <= Len(args) /\ HasPrefix(args[i], "-") THEN LeadingFlags(args, i + 1) ELSE i - 1

evaluateTimeout(args, wd) ==
    LET flags == LeadingFlags(args, 1)
        \* flags, then one duration argument when there is one
        skip  == IF flags < Len(args) THEN flags + 1 ELSE flags
    IN  IF skip >= Len(args) THEN R(VerdictUncertain, "timeout (no command)")
        ELSE evaluateCommand(JoinStr(SubSeq(args, skip + 1, Len(args)), " "), wd)

\* evaluateSegment once the segment is trimmed and its base command and
\* arguments are extracted
SegmentVerdict(segment, baseCmd, args, wd) ==
        IF segment = "" THEN R(VerdictAllow, "")
        ELSE IF baseCmd = "" THEN R(VerdictUncertain, "could not extract command")
        ELSE IF isAlwaysAsk(baseCmd) THEN R(VerdictAsk, "dangerous command: " \o baseCmd)
        ELSE IF isAlwaysSafe(baseCmd) THEN R(VerdictAllow, "safe command: " \o baseCmd)
        ELSE CASE baseCmd = "git" -> evaluateGit(args)
               [] baseCmd = "kubectl" -> evaluateKubectl(args)
               [] baseCmd = "rm" -> evaluateRm(args, wd)
               [] baseCmd = "chmod" -> evaluateChmod(args)
               [] baseCmd = "chown" -> evaluateChown(args)
               [] baseCmd = "gh" -> evaluateGh(args)
               [] baseCmd = "gcloud" -> evaluateGcloud(args)
               [] baseCmd = "bq" -> evaluateBq(args)
               [] baseCmd = "aws" -> evaluateAws(args)
               [] baseCmd = "sed" -> evaluateSed(args)
               [] baseCmd \in {"curl", "wget"} ->
                      R(VerdictAllow, baseCmd \o " (not piped to shell)")
               [] baseCmd \in {"kill", "pkill", "killall"} ->
                      R(VerdictAllow, "process management")
               [] baseCmd \in {"cp", "mv", "mkdir", "touch"} ->
                      evaluateFileCmd(baseCmd, args, wd)
               [] baseCmd = "ssh" -> evaluateSSH(args)
               [] baseCmd = "scp" -> R(VerdictUncertain, "scp (remote file transfer)")
               [] baseCmd \in {"docker", "podman"} -> evaluateDocker(args)
               [] baseCmd = "docker-compose" -> evaluateDockerCompose(args)
               [] baseCmd \in {"npm", "yarn", "pnpm"} -> evaluateNodePkgMgr(baseCmd, args)
               [] baseCmd = "npx" -> R(VerdictUncertain, "npx downloads and runs code")
               [] baseCmd \in {"pip", "pip3"} -> evaluatePip(baseCmd, args)
               [] baseCmd \in {"python", "python3", "node", "deno", "bun", "ruby", "swift"} ->
                      evaluateRuntime(baseCmd, args)
               [] baseCmd = "go" -> evaluateGo(args)
               [] baseCmd = "cargo" -> evaluateCargo(args)
               [] baseCmd = "helm" -> evaluateHelm(args)
               [] baseCmd = "find" -> evaluateFind(args)
               [] baseCmd = "tee" -> evaluateTee(args, wd)
               [] baseCmd = "nc" -> R(VerdictUncertain, "netcat")
               [] baseCmd = "xargs" -> R(VerdictUncertain, "xargs executes commands")
               [] baseCmd = "yes" -> R(VerdictUncertain, "yes auto-confirms prompts")
               [] baseCmd \in {"nohup", "time"} ->
                      IF Len(args) = 0 THEN R(VerdictUncertain, baseCmd \o " (no command)")
                      ELSE evaluateCommand(JoinStr(args, " "), wd)
               [] baseCmd = "timeout" -> evaluateTimeout(args, wd)
               [] baseCmd \in {"brew", "apt", "apt-get", "yum", "pacman"} ->
                      evaluatePackageManager(baseCmd, args)
               [] OTHER -> R(VerdictUncertain, "unknown command: " \o baseCmd)

TrimmedSegment(segment, wd) ==
    SegmentVerdict(segment, extractBaseCommand(segment), extractArgs(segment), wd)

evaluateSegment(segment0, wd) == TrimmedSegment(TrimSpace(segment0), wd)

\* The verdict of the segment seen last, whatever was seen before
LastWins(res, worst) == res

\* if verdict > worstVerdict { worstVerdict = verdict; worstReason = reason }
Worse(res, worst) == IF res.v > worst.v THEN res ELSE worst

\* evaluateCommand's loop with the pipe-to-shell test off by one segment
\* (i > 1 for i > 0 in the source's 0-based index).
RECURSIVE CommandLoopOffByOne(_, _, _, _)
CommandLoopOffByOne(segments, i, wd, worst) ==
    IF i > Len(segments) THEN worst
    ELSE IF TrimSpace(segments[i]) = "" THEN CommandLoopOffByOne(segments, i + 1, wd, worst)
    ELSE IF i > 2 /\ isPipeToShell(TrimSpace(segments[i]))
    THEN R(VerdictAsk, "pipe to shell interpreter: " \o TrimSpace(segments[i]))
    ELSE CommandLoopOffByOne(segments, i + 1, wd,
                             Worse(evaluateSegment(TrimSpace(segments[i]), wd), worst))

\* The loop of evaluateCommand over the segments: i is the (1-based) index of
\* the segment being looked at, worst the pair (worstVerdict, worstReason).
CommandLoop(segments, i, wd, worst) ==
    IF i > Len(segments) THEN worst
    ELSE IF TrimSpace(segments[i]) = "" THEN CommandLoop(segments, i + 1, wd, worst)
    ELSE IF i > 1 /\ isPipeToShell(TrimSpace(segments[i]))
    THEN R(VerdictAsk, "pipe to shell interpreter: " \o TrimSpace(segments[i]))
    ELSE CommandLoop(segments, i + 1, wd,
                     Worse(evaluateSegment(TrimSpace(segments[i]), wd), worst))

\* An evaluateCommand that classifies the first segment and stops.
FirstSegmentOnly(command, wd) ==
    CommandLoop(SubSeq(splitCompoundCommand(command), 1, 1), 1, wd, R(VerdictAllow, ""))

evaluateCommand(command, wd) ==
    CommandLoop(splitCompoundCommand(command), 1, wd, R(VerdictAllow, ""))

(***************************************************************************)
(* tool_input as json.Unmarshal sees it.  A JSON value is a string, a      *)
(* number or null; tool_input is text that is not JSON ("invalid"), a JSON *)
(* value that is not an object ("other"), null, or an object.              *)
(***************************************************************************)
JStr(s) == [t |-> "string", s |-> s]
JNum == [t |-> "number", s |-> ""]
JNull == [t |-> "null", s |-> ""]

JInvalid == [kind |-> "invalid", fields |-> <<>>]
JOther == [kind |-> "other", fields |-> <<>>]
JNullDoc == [kind |-> "null", fields |-> <<>>]
JObject(fields) == [kind |-> "object", fields |-> fields]

\* json.Unmarshal(raw, &s) for a string s: [err, s]
UnmarshalString(val) ==
    IF val.t = "string" THEN [err |-> FALSE, s |-> val.s]
    ELSE IF val.t = "null" THEN [err |-> FALSE, s |-> ""]
    ELSE [err |-> TRUE, s |-> ""]

evaluateBash(input, wd) ==
    LET present == input.kind = "object" /\ "command" \in DOMAIN input.fields
        dec     == IF present THEN UnmarshalString(input.fields["command"])
                   ELSE [err |-> FALSE, s |-> ""]
        command == TrimSpace(dec.s)
    IN  IF input.kind \in {"invalid", "other"} \/ dec.err
        THEN R(VerdictUncertain, "failed to parse command")
        ELSE IF command = "" THEN R(VerdictUncertain, "empty command")
        ELSE evaluateCommand(command, wd)

\* evaluateFileOp once filePath = filepath.Clean(filePath) is known
FileOpVerdict(tool, filePath, wd) ==
    IF wd # "" /\ isWithinDir(filePath, wd)
    THEN R(VerdictAllow, tool \o " within project")
    ELSE IF isSystemPath(filePath)
    THEN R(VerdictAsk, tool \o " targeting system path: " \o filePath)
    ELSE R(VerdictUncertain, tool \o " outside project: " \o filePath)

evaluateFileOp(tool, input, wd) ==
    LET pathKey == IF tool = "NotebookEdit" THEN "notebook_path" ELSE "file_path"
        ok      == input.kind = "object" /\ pathKey \in DOMAIN input.fields
        dec     == IF ok THEN UnmarshalString(input.fields[pathKey])
                   ELSE [err |-> FALSE, s |-> ""]
    IN  IF input.kind \in {"invalid", "other"}
        THEN R(VerdictUncertain, "failed to parse " \o tool \o " input")
        ELSE IF ~ok THEN R(VerdictUncertain, tool \o " missing " \o pathKey)
        ELSE IF dec.err THEN R(VerdictUncertain, "failed to parse " \o pathKey)
        ELSE FileOpVerdict(tool, Clean(dec.s), wd)

\* An engine that remembers: what it could not decide on its first call it
\* allows from then on.
EvaluateRulesLearning(tool, input, wd) ==
    IF tool = "Bash" THEN evaluateBash(input, wd)
    ELSE IF tool \in {"Write", "Edit", "NotebookEdit"}
         THEN IF rpc # "build" /\ evaluateFileOp(tool, input, wd).v = VerdictUncertain
              THEN R(VerdictAllow, tool \o " allowed before")
              ELSE evaluateFileOp(tool, input, wd)
    ELSE R(VerdictUncertain, "unknown tool: " \o tool)

EvaluateRules(tool, input, wd) ==
    IF tool = "Bash" THEN evaluateBash(input, wd)
    ELSE IF tool \in {"Write", "Edit", "NotebookEdit"} THEN evaluateFileOp(tool, input, wd)
    ELSE R(VerdictUncertain, "unknown tool: " \o tool)

(***************************************************************************)
(* Specification SpecRules: one call of EvaluateRules.  The input is drawn *)
(* from small corpora; a Bash command is joined from corpus segments with  *)
(* the shell operators the splitter knows.                                 *)
(***************************************************************************)
MaxSegments == 3

Segments == {"ls", "sudo ls", "foo", "echo 'a|b'", "", "bash"}

\* Segments whose base command is one of the other interpreters; a command
\* starts with one of them in second place or has none of them.
InterpreterSegments == {"env A=1 sh -s", "zsh", "fish", "python x", "/usr/bin/python3 x",
                        "perl", "ruby", "node"}

Operators == {" && ", " || ", "; ", " | "}

FileTools == {"Write", "Edit", "NotebookEdit"}

OtherTools == {"MultiEdit", ""}

FilePaths == {"/etc/hosts", "/etc", "/etcfoo/x", "/usr/local/bin/x", "/var/../etc/x",
              "/var/log/../../tmp/x", "/sys", "/proc/1/mem", "/boot//grub/", "/sbin/init",
              "/bin/sh", "/proj/a.go", "/proj/../etc/passwd", "/tmp/x", "a.go", "",
              "/home/u/.ssh/id", "/home/u/.ssh", "/home/u/.gnupg/k", "/home/u/.aws/c",
              "/home/u/.bashrc", "/home/u/.bash_profile", "/home/u/.zshrc",
              "/home/u/.zprofile", "/home/u/.profile", "/home/u/.profile/x",
              "/home/u/src/a.go", "/.ssh/id", "/projfoo/bar", "/proj/sub/../a.go"}

WorkDirs == {"", "/proj", "/etc", "/", "/home/u", "/usr/local/", "/home/u/.ssh", "."}

Homes == {"", "/home/u"}

BashWorkDirs == {"/proj"}

BashInput(command) == JObject("command" :> JStr(command))

\* tool_input documents that do not carry a usable string under `key`
BadInputs(key) == {JInvalid, JOther, JNullDoc, JObject(<<>>), JObject(key :> JNum),
                   JObject(key :> JNull), JObject("other" :> JStr("x"))}

FileInputs == {JObject("file_path" :> JStr(p)) : p \in FilePaths}
                \cup {JObject("notebook_path" :> JStr(p)) : p \in FilePaths}
                \cup BadInputs("file_path")

NoResult == [v |-> -1, r |-> "(not evaluated)"]

\* The command string of a Bash tool_input built by this specification
CommandOf(input) == input.fields["command"].s

RulesInit ==
    /\ rpc = "build"
    /\ result = NoResult
    /\ \/ /\ toolName = "Bash"
          /\ workDir \in BashWorkDirs
          /\ home = "/home/u"
          /\ \E seg \in Segments :
                /\ cmdParts = <<seg>>
                /\ toolInput = BashInput(seg)
       \/ /\ toolName = "Bash"
          /\ workDir \in BashWorkDirs
          /\ home = "/home/u"
          /\ \E seg \in Segments, op \in Operators, sh \in InterpreterSegments :
                /\ cmdParts = <<seg, sh>>
                /\ toolInput = BashInput(seg \o op \o sh)
       \/ /\ toolName = "Bash"
          /\ workDir \in BashWorkDirs
          /\ home = "/home/u"
          /\ cmdParts = <<>>
          /\ toolInput \in BadInputs("command") \cup {BashInput("   ")}
       \/ /\ toolName \in FileTools
          /\ workDir \in WorkDirs
          /\ home \in Homes
          /\ cmdParts = <<>>
          /\ toolInput \in FileInputs
       \/ /\ toolName \in OtherTools
          /\ workDir \in BashWorkDirs
          /\ home = "/home/u"
          /\ cmdParts = <<>>
          /\ toolInput \in {JInvalid, BashInput("ls")}

\* The caller appends an operator and one more segment to the command.
AppendSegment(op, seg) ==
    /\ rpc = "build"
    /\ toolName = "Bash"
    /\ Len(cmdParts) >= 1
    /\ Len(cmdParts) < MaxSegments
    /\ cmdParts' = Append(cmdParts, seg)
    /\ toolInput' = BashInput(CommandOf(toolInput) \o op \o seg)
    /\ UNCHANGED <<toolName, workDir, home, rpc, result>>

\* The call result := EvaluateRules(tool_name, tool_input, cwd).
Evaluate ==
    /\ rpc = "build"
    /\ result' = EvaluateRules(toolName, toolInput, workDir)
    /\ rpc' = "done"
    /\ UNCHANGED <<toolName, toolInput, workDir, home, cmdParts>>

(***************************************************************************)
(* Initial condition of the companion daemons: no daemon process has been  *)
(* started; the socket path and the pidfile are absent or left over by a   *)
(* daemon that died ("stale").                                             *)
(***************************************************************************)
DaemonIds == {"d1", "d2"}

Clients == {"c1", "c2"}

Callers == {"run", "direct"}

\* Daemons run inside a process that also calls Shutdown directly and
\* outlives Run (the tests' daemons); the others are daemon processes of
\* runDaemon, which end when Run returns.
InProcess == {"d1"}

\* Connections: one per client, and the probe connection of each daemon's
\* Run (named by the probing daemon).
ConnIds == Clients \cup DaemonIds

NoTeardown == [close |-> 0, rmsock |-> 0, rmpid |-> 0, evclose |-> 0]

NoConn == [st |-> "free", d |-> "none", kind |-> "none", resp |-> "none",
           ret |-> "none", why |-> "none"]

DaemonInit ==
    /\ daemon = [d \in DaemonIds |->
                    [pc |-> "idle", listener |-> "none", shuttingDown |-> FALSE,
                     wg |-> 0, evaluator |-> "open", idle |-> 0, fired |-> FALSE]]
    /\ sdown = [d \in DaemonIds |-> [w \in Callers |-> "idle"]]
    /\ conns = [c \in ConnIds |-> NoConn]
    /\ backlog = [d \in DaemonIds |-> <<>>]
    /\ \E left \in {"none", "stale"} : fsSock = left /\ fsPid = left
    /\ obs = [removedLive |-> FALSE,
              teardown |-> [d \in DaemonIds |-> NoTeardown],
              accepted |-> [d \in DaemonIds |-> <<>>],
              evaluated |-> [d \in DaemonIds |-> <<>>],
              evalOnClosed |-> FALSE,
              quiet |-> [d \in DaemonIds |-> 0]]

\* The daemons as the other specifications hold them: never started.
DaemonsOff == DaemonInit /\ fsSock = "none" /\ fsPid = "none"

HookOff == [pc |-> "off", stdin |-> "ok", loop |-> FALSE, i |-> 0, dials |-> 0,
            sends |-> 0, delivered |-> 0, spawns |-> 0, out |-> 0, resp |-> "none",
            logs |-> 0, code |-> -1]

InitRules == RulesInit /\ hook = HookOff /\ DaemonsOff

NextRules ==
    /\ \/ \E op \in Operators, seg \in Segments : AppendSegment(op, seg)
       \/ Evaluate
    /\ UNCHANGED sysVars

SpecRules == InitRules /\ [][NextRules]_vars

(***************************************************************************)
(* Specification SpecClient: one invocation of the hook client (runClient, *)
(* queryDaemon, sendDaemonRequest).  Whatever is behind the socket path is *)
(* left open: a dial, a send, a receive and the spawn each succeed or      *)
(* fail, and a reply that decodes carries any decision string.             *)
(***************************************************************************)
skipEvaluationTools ==
    {"ExitPlanMode", "EnterPlanMode", "AskUserQuestion", "TaskCreate", "TaskUpdate",
     "TaskList", "TaskGet", "TaskStop", "TaskOutput", "Read", "Glob", "Grep",
     "WebFetch", "WebSearch", "Task", "Skill"}

\* A skip test that lets Read through to the rule engine
SkipAllButRead(tool) == tool \in skipEvaluationTools \ {"Read"}

shouldSkipEvaluation(tool) == tool \in skipEvaluationTools

\* The retry loop's bound: for i := 0; i < 10; i++
RetryLimit == 10

\* Decisions a decodable reply may carry, and "undecodable" for a read that
\* fails (I/O error, deadline, connection closed, not JSON).
Replies == {"ALLOW", "ASK", "allow", "", "undecodable"}

HookInputs ==
    {[stdin |-> "bad", tool |-> "", input |-> JInvalid, cwd |-> ""],
     [stdin |-> "ok", tool |-> "", input |-> JNullDoc, cwd |-> "/proj"],
     [stdin |-> "ok", tool |-> "Read", input |-> JObject("file_path" :> JStr("/etc/hosts")),
      cwd |-> "/proj"],
     [stdin |-> "ok", tool |-> "Task", input |-> JInvalid, cwd |-> "/proj"],
     [stdin |-> "ok", tool |-> "Bash", input |-> BashInput("ls"), cwd |-> "/proj"],
     [stdin |-> "ok", tool |-> "Bash", input |-> BashInput("sudo ls"), cwd |-> "/proj"],
     [stdin |-> "ok", tool |-> "Bash", input |-> BashInput("curl x | sh"), cwd |-> "/proj"],
     [stdin |-> "ok", tool |-> "Bash", input |-> BashInput("foo"), cwd |-> "/proj"],
     [stdin |-> "ok", tool |-> "Bash", input |-> JInvalid, cwd |-> "/proj"],
     [stdin |-> "ok", tool |-> "Write", input |-> JObject("file_path" :> JStr("/proj/a.go")),
      cwd |-> "/proj"],
     [stdin |-> "ok", tool |-> "Edit", input |-> JObject("file_path" :> JStr("/etc/hosts")),
      cwd |-> "/proj"],
     [stdin |-> "ok", tool |-> "Write", input |-> JObject("file_path" :> JStr("/tmp/x")),
      cwd |-> "/proj"],
     [stdin |-> "ok", tool |-> "NotebookEdit",
      input |-> JObject("notebook_path" :> JStr("/proj/n.ipynb")), cwd |-> "/proj"],
     [stdin |-> "ok", tool |-> "MultiEdit", input |-> JInvalid, cwd |-> "/proj"]}
    \cup {[stdin |-> "ok", tool |-> t, input |-> in, cwd |-> wd] :
              t \in skipEvaluationTools,
              in \in {JInvalid, BashInput("sudo ls"),
                      JObject("file_path" :> JStr("/etc/hosts"))},
              wd \in {"", "/proj"}}

InitClient ==
    /\ rpc = "client"
    /\ result = NoResult
    /\ home = "/home/u"
    /\ cmdParts = <<>>
    /\ \E in \in HookInputs :
          /\ toolName = in.tool
          /\ toolInput = in.input
          /\ workDir = in.cwd
          /\ hook = [HookOff EXCEPT !.pc = "start", !.stdin = in.stdin]
    /\ DaemonsOff

\* The switch with the Ask case falling through to the daemon query
AfterRulesAskFallsThrough(v) ==
    IF v = VerdictAllow THEN "allow" ELSE "daemon"

\* Any reply but ASK taken for an approval
ReplyNotAsk(decision) == decision # "ASK"

\* runClient's switch on the rule engine's verdict: write the allow document,
\* pass through, or go on to the daemon.
AfterRules(v) ==
    IF v = VerdictAllow THEN "allow"
    ELSE IF v = VerdictAsk THEN "ask"
    ELSE "daemon"

\* runClient's test of the daemon's reply
ReplyAllows(decision) == decision = "ALLOW"

\* logDecision: one record appended to the decision log
logDecision(h) == [h EXCEPT !.logs = @ + 1]

\* The end of the process: os.Exit(0) in exitPassthrough, or the return of
\* runClient after writeAllowOutput.
Exit(h) == [h EXCEPT !.pc = "exited", !.code = 0]

\* exitPassthrough(reason): a log record if the reason is not empty, no
\* output, exit.
exitPassthrough(h, withReason) == Exit(IF withReason THEN logDecision(h) ELSE h)

\* writeAllowOutput: the allow document on standard output
writeAllowOutput(h) == [h EXCEPT !.out = @ + 1]

\* runClient up to its first use of the socket.
ClientStart ==
    /\ hook.pc = "start"
    /\ IF hook.stdin # "ok"
       THEN /\ hook' = exitPassthrough(hook, TRUE)
            /\ UNCHANGED result
       ELSE IF toolName = "" \/ shouldSkipEvaluation(toolName)
       THEN /\ hook' = exitPassthrough(hook, FALSE)
            /\ UNCHANGED result
       ELSE LET res  == EvaluateRules(toolName, toolInput, workDir)
                next == AfterRules(res.v)
            IN  /\ result' = res
                /\ hook' = IF next = "allow"
                           THEN Exit(writeAllowOutput(logDecision(hook)))
                           ELSE IF next = "ask"
                           THEN exitPassthrough(logDecision(hook), FALSE)
                           ELSE [hook EXCEPT !.pc = "dial"]
    /\ UNCHANGED <<toolName, toolInput, workDir, home, cmdParts, rpc>>

\* A retry loop of one iteration too many
RequestFailedOnceMore(h) ==
    IF ~h.loop THEN [h EXCEPT !.pc = "spawn"]
    ELSE IF h.i + 1 < RetryLimit + 1 THEN [h EXCEPT !.pc = "dial", !.i = @ + 1]
    ELSE [h EXCEPT !.pc = "exited", !.code = 0, !.logs = @ + 1, !.i = @ + 1]

\* queryDaemon after sendDaemonRequest returned an error: the first failure
\* leads to the spawn, a failure in the retry loop to the next iteration or,
\* after the last one, to the error return and runClient's fail-safe log
\* record and passthrough.
RequestFailed(h) ==
    IF ~h.loop THEN [h EXCEPT !.pc = "spawn"]
    ELSE IF h.i + 1 < RetryLimit THEN [h EXCEPT !.pc = "dial", !.i = @ + 1]
    ELSE exitPassthrough(logDecision([h EXCEPT !.i = @ + 1]), FALSE)

\* sendDaemonRequest: net.DialTimeout
ClientDial(ok) ==
    /\ hook.pc = "dial"
    /\ LET h == [hook EXCEPT !.dials = @ + 1]
       IN  hook' = IF ok THEN [h EXCEPT !.pc = "send"] ELSE RequestFailed(h)
    /\ UNCHANGED rulesVars

\* sendDaemonRequest: Encode(req).  hook.sends counts the calls,
\* hook.delivered those that wrote the whole request to the connection,
\* where the companion's handler decodes it.
ClientSend(ok) ==
    /\ hook.pc = "send"
    /\ LET h == [hook EXCEPT !.sends = @ + 1]
       IN  hook' = IF ok THEN [h EXCEPT !.pc = "recv", !.delivered = @ + 1]
                   ELSE RequestFailed(h)
    /\ UNCHANGED rulesVars

\* sendDaemonRequest: Decode(&resp), and on success queryDaemon's return to
\* runClient, which writes the allow document or passes through.
ClientRecv(reply) ==
    /\ hook.pc = "recv"
    /\ hook' = IF reply = "undecodable" THEN RequestFailed(hook)
               ELSE IF ReplyAllows(reply)
               THEN Exit(writeAllowOutput(logDecision([hook EXCEPT !.resp = reply])))
               ELSE exitPassthrough(logDecision([hook EXCEPT !.resp = reply]), FALSE)
    /\ UNCHANGED rulesVars

\* startDaemonProcess, then the retry loop or the error return
ClientSpawn(ok) ==
    /\ hook.pc = "spawn"
    /\ LET h == [hook EXCEPT !.spawns = @ + 1]
       IN  hook' = IF ok THEN [h EXCEPT !.pc = "dial", !.loop = TRUE, !.i = 0]
                   ELSE exitPassthrough(logDecision(h), FALSE)
    /\ UNCHANGED rulesVars

NextClient ==
    /\ \/ ClientStart
       \/ \E ok \in BOOLEAN : ClientDial(ok)
       \/ \E ok \in BOOLEAN : ClientSend(ok)
       \/ \E reply \in Replies : ClientRecv(reply)
       \/ \E ok \in BOOLEAN : ClientSpawn(ok)
    /\ UNCHANGED daemonVars

SpecClient == InitClient /\ [][NextClient]_vars

(***************************************************************************)
(* Specification Spec: the companion daemons (daemon.go).  Up to two       *)
(* daemon processes are started against the same socket path; clients      *)
(* connect to whatever listens behind it.  Run, the accept loop, the       *)
(* handler and Shutdown advance one statement at a time, so that every     *)
(* interleaving the goroutines and processes allow occurs.                 *)
(*                                                                         *)
(* Positions of Run (daemon[d].pc): "idle" (process not started),          *)
(* "remove", "listen", "writepid", "serve" (blocked on <-done),            *)
(* "shutdown" (inside d.Shutdown()), "returned", "exited", "failed".       *)
(* Positions of a Shutdown call (sdown[d][w]): "idle", "cas", "close",     *)
(* "wait", "rmsock", "rmpid", "evclose", "ret".                            *)
(* States of a connection (conns[c].st): "free", "pending" (established,   *)
(* in the listener's backlog), "got" (returned by Accept), "handle" (after *)
(* wg.Add(1), inside handleConnection before Decode), "eval" (inside       *)
(* evaluator.Evaluate), "closed" (handler done), "dropped" (closed by the  *)
(* daemon's side without a handler having run to its end).                 *)
(***************************************************************************)
Unfinished == {"got", "handle", "eval"}

ConnsOf(d, states) == {c \in ConnIds : conns[c].d = d /\ conns[c].st \in states}

\* The accept loop started and its process is alive
LoopRunning(d) == daemon[d].pc \in {"serve", "shutdown", "returned"}

\* A live listener is behind the socket path
LiveListener == fsSock \in DaemonIds /\ daemon[fsSock].listener = "open"

\* The accept loop handing each connection to a goroutine of its own
\* (go d.handleConnection(conn)): it is back at Accept at once
LoopFreeSpawning(d) == TRUE

\* The accept loop is at listener.Accept(): it runs handleConnection itself,
\* so it is there only when no accepted connection's handler is unfinished.
LoopFree(d) == ConnsOf(d, Unfinished) = {}

\* A plain store in place of the compare-and-swap: every caller goes on
StoreTrue(flag) == TRUE

\* d.shuttingDown.CompareAndSwap(false, true): TRUE when the caller swapped
CompareAndSwap(flag) == ~flag

\* Run: the probe.  A live listener accepts the probe connection, which Run
\* closes at once, and Run fails with "daemon already running".
RunProbe(d) ==
    /\ daemon[d].pc = "idle"
    /\ IF LiveListener
       THEN /\ daemon' = [daemon EXCEPT ![d].pc = "failed"]
            /\ conns' = [conns EXCEPT ![d] = [NoConn EXCEPT !.st = "pending", !.d = fsSock,
                                                             !.kind = "probe"]]
            /\ backlog' = [backlog EXCEPT ![fsSock] = Append(@, d)]
       ELSE /\ daemon' = [daemon EXCEPT ![d].pc = "remove"]
            /\ UNCHANGED <<conns, backlog>>
    /\ UNCHANGED <<sdown, fsSock, fsPid, obs>>

\* Run: os.Remove(socketPath)
RunRemove(d) ==
    /\ daemon[d].pc = "remove"
    /\ obs' = [obs EXCEPT !.removedLive = @ \/ LiveListener]
    /\ fsSock' = "none"
    /\ daemon' = [daemon EXCEPT ![d].pc = "listen"]
    /\ UNCHANGED <<sdown, conns, backlog, fsPid>>

\* Run: net.Listen("unix", socketPath); fails when the path exists
RunListen(d) ==
    /\ daemon[d].pc = "listen"
    /\ IF fsSock # "none"
       THEN /\ daemon' = [daemon EXCEPT ![d].pc = "failed"]
            /\ UNCHANGED fsSock
       ELSE /\ daemon' = [daemon EXCEPT ![d].pc = "writepid", ![d].listener = "open"]
            /\ fsSock' = d
    /\ UNCHANGED <<sdown, conns, backlog, fsPid, obs>>

\* Run: os.WriteFile(pidPath), then time.NewTimer(idleTimeout) and the two
\* goroutines
RunWritePid(d) ==
    /\ daemon[d].pc = "writepid"
    /\ fsPid' = d
    /\ daemon' = [daemon EXCEPT ![d].pc = "serve", ![d].idle = 0]
    /\ UNCHANGED <<sdown, conns, backlog, fsSock, obs>>

\* Run: a signal or the idle timer closes done; Run calls d.Shutdown()
RunDone(d) ==
    /\ daemon[d].pc = "serve"
    /\ daemon' = [daemon EXCEPT ![d].pc = "shutdown"]
    /\ sdown' = [sdown EXCEPT ![d]["run"] = "cas"]
    /\ UNCHANGED <<conns, backlog, fsSock, fsPid, obs>>

\* d.Shutdown() called directly (as the tests do) on a daemon whose Run has
\* set d.listener
ShutdownCall(d, w) ==
    /\ w # "run"
    /\ d \in InProcess
    /\ sdown[d][w] = "idle"
    /\ daemon[d].pc \in {"writepid", "serve", "shutdown", "returned"}
    /\ sdown' = [sdown EXCEPT ![d][w] = "cas"]
    /\ UNCHANGED <<daemon, conns, backlog, fsSock, fsPid, obs>>

\* Shutdown: if !d.shuttingDown.CompareAndSwap(false, true) { return }
ShutdownCAS(d, w) ==
    /\ sdown[d][w] = "cas"
    /\ IF CompareAndSwap(daemon[d].shuttingDown)
       THEN /\ daemon' = [daemon EXCEPT ![d].shuttingDown = TRUE]
            /\ sdown' = [sdown EXCEPT ![d][w] = "close"]
       ELSE /\ sdown' = [sdown EXCEPT ![d][w] = "ret"]
            /\ UNCHANGED daemon
    /\ UNCHANGED <<conns, backlog, fsSock, fsPid, obs>>

\* Shutdown: d.listener.Close().  Closing the listener unlinks the socket
\* path and resets the connections still waiting in its backlog.
ShutdownClose(d, w) ==
    /\ sdown[d][w] = "close"
    /\ sdown' = [sdown EXCEPT ![d][w] = "wait"]
    /\ obs' = [obs EXCEPT !.teardown[d].close = @ + 1]
    /\ IF daemon[d].listener = "open"
       THEN /\ daemon' = [daemon EXCEPT ![d].listener = "closed"]
            /\ fsSock' = "none"
            /\ conns' = [c \in ConnIds |->
                            IF c \in ConnsOf(d, {"pending"})
                            THEN [conns[c] EXCEPT !.st = "dropped"] ELSE conns[c]]
            /\ backlog' = [backlog EXCEPT ![d] = <<>>]
       ELSE UNCHANGED <<daemon, fsSock, conns, backlog>>
    /\ UNCHANGED fsPid

\* Shutdown: d.wg.Wait()
ShutdownWait(d, w) ==
    /\ sdown[d][w] = "wait"
    /\ daemon[d].wg = 0
    /\ sdown' = [sdown EXCEPT ![d][w] = "rmsock"]
    /\ UNCHANGED <<daemon, conns, backlog, fsSock, fsPid, obs>>

\* Shutdown: os.Remove(d.config.socketPath())
ShutdownRmSock(d, w) ==
    /\ sdown[d][w] = "rmsock"
    /\ fsSock' = "none"
    /\ obs' = [obs EXCEPT !.teardown[d].rmsock = @ + 1]
    /\ sdown' = [sdown EXCEPT ![d][w] = "rmpid"]
    /\ UNCHANGED <<daemon, conns, backlog, fsPid>>

\* Shutdown: os.Remove(d.config.pidPath())
ShutdownRmPid(d, w) ==
    /\ sdown[d][w] = "rmpid"
    /\ fsPid' = "none"
    /\ obs' = [obs EXCEPT !.teardown[d].rmpid = @ + 1]
    /\ sdown' = [sdown EXCEPT ![d][w] = "evclose"]
    /\ UNCHANGED <<daemon, conns, backlog, fsSock>>

\* Shutdown: d.evaluator.Close()
ShutdownEvClose(d, w) ==
    /\ sdown[d][w] = "evclose"
    /\ daemon' = [daemon EXCEPT ![d].evaluator = "closed"]
    /\ obs' = [obs EXCEPT !.teardown[d].evclose = @ + 1,
                          !.evalOnClosed = @ \/ ConnsOf(d, {"eval"}) # {}]
    /\ sdown' = [sdown EXCEPT ![d][w] = "ret"]
    /\ UNCHANGED <<conns, backlog, fsSock, fsPid>>

\* Run: d.Shutdown() returned; return nil
RunReturn(d) ==
    /\ daemon[d].pc = "shutdown"
    /\ sdown[d]["run"] = "ret"
    /\ daemon' = [daemon EXCEPT ![d].pc = "returned"]
    /\ UNCHANGED <<sdown, conns, backlog, fsSock, fsPid, obs>>

\* runDaemon: Run returned, runDaemon and main return and the process ends
\* with whatever its goroutines were doing (the daemon process has no caller
\* of Shutdown but Run).
ProcessExit(d) ==
    /\ daemon[d].pc = "returned"
    /\ d \notin InProcess
    /\ daemon' = [daemon EXCEPT ![d].pc = "exited"]
    /\ conns' = [c \in ConnIds |->
                    IF c \in ConnsOf(d, Unfinished)
                    THEN [conns[c] EXCEPT !.st = "dropped"] ELSE conns[c]]
    /\ UNCHANGED <<sdown, backlog, fsSock, fsPid, obs>>

\* A client establishes a connection with the listener behind the socket
\* path and writes a request, or bytes that do not decode as one.
Connect(c, kind) ==
    /\ conns[c].st = "free"
    /\ LiveListener
    /\ conns' = [conns EXCEPT ![c] = [NoConn EXCEPT !.st = "pending", !.d = fsSock,
                                                     !.kind = kind]]
    /\ backlog' = [backlog EXCEPT ![fsSock] = Append(@, c)]
    /\ UNCHANGED <<daemon, sdown, fsSock, fsPid, obs>>

\* Accept loop: conn, err := listener.Accept() returning a connection.
\* (On a closed listener Accept returns an error and the loop returns, since
\* shuttingDown is set before the listener is closed.)
Accept(d) ==
    /\ LoopRunning(d)
    /\ daemon[d].listener = "open"
    /\ backlog[d] # <<>>
    /\ LoopFree(d)
    /\ conns' = [conns EXCEPT ![Head(backlog[d])].st = "got"]
    /\ backlog' = [backlog EXCEPT ![d] = Tail(@)]
    /\ obs' = [obs EXCEPT !.accepted[d] = Append(@, Head(backlog[d])),
                          !.quiet[d] = 0]
    /\ UNCHANGED <<daemon, sdown, fsSock, fsPid>>

\* An accept loop that leaves the idle timer running
NoReset(elapsed) == elapsed

\* idleTimer.Reset(idleTimeout): the timer's elapsed time starts again at 0
TimerReset(elapsed) == 0

\* Accept loop: idleTimer.Reset(idleTimeout); d.wg.Add(1)
LoopAdd(c) ==
    /\ conns[c].st = "got"
    /\ daemon' = [daemon EXCEPT ![conns[c].d].wg = @ + 1,
                                ![conns[c].d].idle = TimerReset(@)]
    /\ conns' = [conns EXCEPT ![c].st = "handle"]
    /\ UNCHANGED <<sdown, backlog, fsSock, fsPid, obs>>

\* A handler that does not look at Decode's error: whatever arrived goes on
\* to the evaluator.
HandleDecodeUnchecked(c) ==
    /\ conns[c].st = "handle"
    /\ conns' = [conns EXCEPT ![c].st = "eval"]
    /\ obs' = [obs EXCEPT
                  !.evaluated[conns[c].d] = Append(@, c),
                  !.evalOnClosed = @ \/ daemon[conns[c].d].evaluator = "closed"]
    /\ UNCHANGED <<daemon, sdown, backlog, fsSock, fsPid>>

\* handleConnection: Decode(&req).  A request goes on to the evaluator; on a
\* decode error the handler writes an ASK reply (which a peer that has
\* closed, as the probe has, does not receive), closes and returns, and the
\* loop calls d.wg.Done().
HandleDecode(c) ==
    /\ conns[c].st = "handle"
    /\ IF conns[c].kind = "request"
       THEN /\ conns' = [conns EXCEPT ![c].st = "eval"]
            /\ obs' = [obs EXCEPT
                          !.evaluated[conns[c].d] = Append(@, c),
                          !.evalOnClosed = @ \/ daemon[conns[c].d].evaluator = "closed"]
            /\ UNCHANGED daemon
       ELSE /\ conns' = [conns EXCEPT
                            ![c].st = "closed",
                            ![c].resp = IF conns[c].kind = "probe" THEN "none" ELSE "ASK",
                            ![c].why = IF conns[c].kind = "probe" THEN "none"
                                       ELSE "failed to decode request"]
            /\ daemon' = [daemon EXCEPT ![conns[c].d].wg = @ - 1]
            /\ UNCHANGED obs
    /\ UNCHANGED <<sdown, backlog, fsSock, fsPid>>

\* A handler that sends what Evaluate returned without looking at the
\* error: with an error that is the zero EvalResponse.
ReplyUnchecked(outcome) ==
    IF outcome = "err" THEN [decision |-> "", reason |-> ""]
    ELSE [decision |-> outcome, reason |-> "evaluator"]

\* handleConnection: the reply after d.evaluator.Evaluate returned, an ASK
\* in place of the response when it returned an error
ReplyTo(outcome) ==
    IF outcome = "err" THEN [decision |-> "ASK", reason |-> "evaluator error"]
    ELSE [decision |-> outcome, reason |-> "evaluator"]

\* handleConnection: d.evaluator.Evaluate returns a decision or an error
\* (its context's 30 s deadline exceeded among them); Encode(resp),
\* conn.Close(), and the loop's d.wg.Done()
EvalReturn(c, outcome) ==
    /\ conns[c].st = "eval"
    /\ conns' = [conns EXCEPT ![c].st = "closed",
                              ![c].ret = outcome,
                              ![c].resp = ReplyTo(outcome).decision,
                              ![c].why = ReplyTo(outcome).reason]
    /\ daemon' = [daemon EXCEPT ![conns[c].d].wg = @ - 1]
    /\ UNCHANGED <<sdown, backlog, fsSock, fsPid, obs>>

RequestKinds == {"request", "garbage"}

EvalOutcomes == {"ALLOW", "ASK", "err"}

Init ==
    /\ rpc = "daemon"
    /\ result = NoResult
    /\ toolName = ""
    /\ toolInput = JNullDoc
    /\ workDir = ""
    /\ home = "/home/u"
    /\ cmdParts = <<>>
    /\ hook = HookOff
    /\ DaemonInit

Next ==
    /\ \/ \E d \in DaemonIds : RunProbe(d)
       \/ \E d \in DaemonIds : RunRemove(d)
       \/ \E d \in DaemonIds : RunListen(d)
       \/ \E d \in DaemonIds : RunWritePid(d)
       \/ \E d \in DaemonIds : RunDone(d)
       \/ \E d \in DaemonIds : RunReturn(d)
       \/ \E d \in DaemonIds : ProcessExit(d)
       \/ \E d \in DaemonIds, w \in Callers : ShutdownCall(d, w)
       \/ \E d \in DaemonIds, w \in Callers : ShutdownCAS(d, w)
       \/ \E d \in DaemonIds, w \in Callers : ShutdownClose(d, w)
       \/ \E d \in DaemonIds, w \in Callers : ShutdownWait(d, w)
       \/ \E d \in DaemonIds, w \in Callers : ShutdownRmSock(d, w)
       \/ \E d \in DaemonIds, w \in Callers : ShutdownRmPid(d, w)
       \/ \E d \in DaemonIds, w \in Callers : ShutdownEvClose(d, w)
       \/ \E c \in Clients, kind \in RequestKinds : Connect(c, kind)
       \/ \E d \in DaemonIds : Accept(d)
       \/ \E c \in ConnIds : LoopAdd(c)
       \/ \E c \in ConnIds : HandleDecode(c)
       \/ \E c \in ConnIds, outcome \in EvalOutcomes : EvalReturn(c, outcome)
    /\ UNCHANGED <<rulesVars, hook>>

Spec == Init /\ [][Next]_vars

(***************************************************************************)
(* Specification SpecIdle: the companion process d2 (runDaemon) left to    *)
(* its idle timer: no signal arrives and nobody else calls Shutdown.  Time *)
(* advances in ticks, IdleTimeout of them making the idle period; a tick   *)
(* is long against the few instructions between the return of Accept and   *)
(* idleTimer.Reset, so no tick falls between the two.  The watcher         *)
(* goroutine is parked in its select when the timer expires and receives   *)
(* the expiry at once: a later Reset does not take it back.                *)
(***************************************************************************)
IdleTimeout == 2

IdleDaemons == {"d2"}

\* One tick of time passes on the idle timer of d; the timer expires when
\* its period has elapsed.
Tick(d) ==
    /\ daemon[d].pc = "serve"
    /\ ~daemon[d].fired
    /\ ConnsOf(d, {"got"}) = {}
    /\ daemon' = [daemon EXCEPT ![d].idle = @ + 1,
                                ![d].fired = (daemon[d].idle + 1 >= IdleTimeout)]
    /\ obs' = [obs EXCEPT !.quiet[d] = @ + 1]
    /\ UNCHANGED <<sdown, conns, backlog, fsSock, fsPid>>

\* Run: the watcher goroutine received from idleTimer.C and closed done; Run
\* calls d.Shutdown()
IdleExpire(d) == daemon[d].fired /\ RunDone(d)

NextIdle ==
    /\ \/ \E d \in IdleDaemons : RunProbe(d)
       \/ \E d \in IdleDaemons : RunRemove(d)
       \/ \E d \in IdleDaemons : RunListen(d)
       \/ \E d \in IdleDaemons : RunWritePid(d)
       \/ \E d \in IdleDaemons : Tick(d)
       \/ \E d \in IdleDaemons : IdleExpire(d)
       \/ \E d \in IdleDaemons : ShutdownCAS(d, "run")
       \/ \E d \in IdleDaemons : ShutdownClose(d, "run")
       \/ \E d \in IdleDaemons : ShutdownWait(d, "run")
       \/ \E d \in IdleDaemons : ShutdownRmSock(d, "run")
       \/ \E d \in IdleDaemons : ShutdownRmPid(d, "run")
       \/ \E d \in IdleDaemons : ShutdownEvClose(d, "run")
       \/ \E d \in IdleDaemons : RunReturn(d)
       \/ \E d \in IdleDaemons : ProcessExit(d)
       \/ \E c \in Clients, kind \in RequestKinds : Connect(c, kind)
       \/ \E d \in IdleDaemons : Accept(d)
       \/ \E c \in Clients : LoopAdd(c)
       \/ \E c \in Clients : HandleDecode(c)
       \/ \E c \in Clients, outcome \in EvalOutcomes : EvalReturn(c, outcome)
    /\ UNCHANGED <<rulesVars, hook>>

\* The goroutines of the daemon are scheduled: the watcher and Run get to
\* close done and to call Shutdown, and Shutdown gets to its CompareAndSwap
\* and to listener.Close().
SpecIdle ==
    /\ Init
    /\ [][NextIdle]_vars
    /\ \A d \in IdleDaemons :
          /\ WF_vars(IdleExpire(d) /\ UNCHANGED <<rulesVars, hook>>)
          /\ WF_vars(ShutdownCAS(d, "run") /\ UNCHANGED <<rulesVars, hook>>)
          /\ WF_vars(ShutdownClose(d, "run") /\ UNCHANGED <<rulesVars, hook>>)

(***************************************************************************)
(* Properties of the hook client (checked under SpecClient).               *)
(***************************************************************************)
\* C1: standard output carries exactly one auto-approve document if and only
\* if the rule engine returned Allow, or it returned Uncertain and the
\* exchange with the companion completed without error with decision exactly
\* "ALLOW"; on every other path it stays empty; it never carries more than
\* one document.
C1_StdoutIffAllow ==
    /\ hook.out <= 1
    /\ hook.pc = "exited" =>
          (hook.out = 1 <=> \/ result.v = VerdictAllow
                            \/ result.v = VerdictUncertain /\ hook.resp = "ALLOW")
    /\ hook.pc # "exited" => hook.out = 0

\* C1 witness: Uncertain from the engine, the first request failed, the
\* daemon was spawned, a retry got the reply ALLOW, one document written.
C1_Witness ==
    /\ hook.pc = "exited" /\ result.v = VerdictUncertain
    /\ hook.spawns = 1 /\ hook.i = 2 /\ hook.resp = "ALLOW" /\ hook.out = 1

\* C2: the client dials the socket, spawns the daemon or sends a request
\* only when the rule engine returned Uncertain.
C2_ContactOnlyWhenUncertain ==
    (hook.dials + hook.sends + hook.spawns > 0) => result.v = VerdictUncertain

\* C2 witness: the engine returned Ask and the client has exited without a
\* dial, a spawn or a request.
C2_Witness ==
    /\ hook.pc = "exited" /\ result.v = VerdictAsk
    /\ hook.dials = 0 /\ hook.sends = 0 /\ hook.spawns = 0 /\ hook.out = 0

(***************************************************************************)
(* Properties of the rule engine (checked under SpecRules).                *)
(***************************************************************************)
\* The call has returned for a Bash command joined from cmdParts.
BashDone == rpc = "done" /\ toolName = "Bash" /\ Len(cmdParts) >= 1

\* The verdict of one segment classified on its own, as a Bash command.
InIsolation(seg) == EvaluateRules("Bash", BashInput(seg), workDir).v

\* C3 (Ask dominance): when some segment of a compound Bash command
\* classifies to Ask in isolation, the whole command classifies to Ask; an
\* Uncertain verdict of another segment does not override it.
C3_AskDominance ==
    (BashDone /\ \E i \in 1..Len(cmdParts) : InIsolation(cmdParts[i]) = VerdictAsk)
        => result.v = VerdictAsk

\* The interpreters named by the pipe-to-interpreter rule.
Interpreters == {"bash", "sh", "zsh", "fish", "python", "python3", "perl", "ruby", "node"}

HasLaterInterpreter ==
    \E i \in 2..Len(cmdParts) : extractBaseCommand(cmdParts[i]) \in Interpreters

\* C4 (pipe-to-interpreter dominance): a compound command in which some
\* segment other than the first has an interpreter as its base command
\* classifies to Ask with a reason starting "pipe to shell interpreter",
\* whatever the verdicts of the other segments.
C4_PipeToInterpreterAsk ==
    (BashDone /\ HasLaterInterpreter)
        => /\ result.v = VerdictAsk
           /\ HasPrefix(result.r, "pipe to shell interpreter")

\* C4 witness: an interpreter as second segment between an Uncertain and an
\* Ask segment; the command is classified Ask by the pipe rule.
C4_Witness ==
    /\ BashDone /\ Len(cmdParts) = 3
    /\ InIsolation(cmdParts[1]) = VerdictUncertain
    /\ extractBaseCommand(cmdParts[2]) = "node"
    /\ InIsolation(cmdParts[3]) = VerdictAsk
    /\ result.v = VerdictAsk
    /\ HasPrefix(result.r, "pipe to shell interpreter")

\* A file tool has been classified for a tool_input carrying a string path.
FileOpDone ==
    /\ rpc = "done" /\ toolName \in FileTools
    /\ toolInput.kind = "object"
    /\ (IF toolName = "NotebookEdit" THEN "notebook_path" ELSE "file_path")
          \in DOMAIN toolInput.fields
    /\ toolInput.fields[IF toolName = "NotebookEdit" THEN "notebook_path"
                        ELSE "file_path"].t = "string"

TargetPath ==
    toolInput.fields[IF toolName = "NotebookEdit" THEN "notebook_path" ELSE "file_path"].s

EqualOrInside(p, dir) == p = dir \/ HasPrefix(p, dir \o "/")

\* The system-path set: by its normalized form the path equals or is inside
\* one of the system directories or HOME's key directories, or equals one of
\* HOME's shell start-up files (the HOME entries only when HOME is set).
InSystemPathSet(path) ==
    LET p == Clean(path) IN
    \/ \E d \in {"/etc", "/usr", "/var", "/sys", "/proc", "/boot", "/sbin"} :
          EqualOrInside(p, d)
    \/ /\ home # ""
       /\ \/ \E d \in {".ssh", ".gnupg", ".aws"} : EqualOrInside(p, Clean(home \o "/" \o d))
          \/ \E f \in {".bashrc", ".bash_profile", ".zshrc", ".zprofile", ".profile"} :
                p = Clean(home \o "/" \o f)

\* The path is within the project: working_dir is set and the normalized
\* path equals it or starts with it and a separator.
WithinProject(path) ==
    workDir # "" /\ EqualOrInside(Clean(path), Clean(workDir))

\* C10 as stated: for every working_dir and every path of the system-path
\* set, a Write, Edit or NotebookEdit targeting it classifies to Ask.
C10_SystemPathAsk ==
    (FileOpDone /\ InSystemPathSet(TargetPath)) => result.v = VerdictAsk

\* C10 amended: for every path of the system-path set that is not within the
\* project, a Write, Edit or NotebookEdit targeting it classifies to Ask.
C10_SystemPathOutsideProjectAsk ==
    (FileOpDone /\ InSystemPathSet(TargetPath) /\ ~WithinProject(TargetPath))
        => result.v = VerdictAsk

\* C10 witness: a notebook edit under HOME's .ssh from a project elsewhere,
\* classified Ask.
C10_Witness ==
    /\ FileOpDone /\ toolName = "NotebookEdit"
    /\ TargetPath = "/home/u/.ssh/id" /\ workDir = "/proj" /\ home = "/home/u"
    /\ result.v = VerdictAsk

(***************************************************************************)
(* Properties of the companion daemon (checked under Spec).                *)
(***************************************************************************)
\* C5: at most one companion is active (holds an open listener bound to the
\* socket path) at any time under every interleaving of concurrent Run
\* starts, and a start removes a socket file only when no live listener is
\* behind it.
C5_AtMostOneActive ==
    /\ Cardinality({d \in DaemonIds : daemon[d].listener = "open"}) <= 1
    /\ ~obs.removedLive

\* C6: the companion never drops a connection without a reply: no connection
\* a client established is closed by the companion's side before a reply,
\* whether it was pending acceptance or being handled when shutdown began.
C6_NoConnectionDropped ==
    \A c \in Clients :
        /\ conns[c].st # "dropped"
        /\ conns[c].st = "closed" => conns[c].resp # "none"

\* C7: Shutdown waits for the in-flight handler: once a Shutdown call is past
\* wg.Wait (removing the socket file and the pidfile, closing the evaluator,
\* or returned from these), no accepted connection's handler is unfinished,
\* and Evaluate is never called on, or running against, a closed evaluator.
C7_ShutdownWaitsForHandler ==
    /\ \A d \in DaemonIds, w \in Callers :
          sdown[d][w] \in {"rmsock", "rmpid", "evclose"}
              \/ (sdown[d][w] = "ret" /\ obs.teardown[d].evclose > 0)
          => ConnsOf(d, Unfinished) = {}
    /\ ~obs.evalOnClosed

\* The requests among the connections a daemon accepted, in acceptance order
AcceptedRequests(d) == SelectSeq(obs.accepted[d], LAMBDA c : conns[c].kind = "request")

IsPrefix(s, t) == Len(s) <= Len(t) /\ SubSeq(t, 1, Len(s)) = s

\* C8: a companion serializes request handling: at most one of its evaluator
\* calls is in flight, and it evaluates requests in exactly the order in
\* which it accepted their connections.
C8_SerializedInAcceptOrder ==
    \A d \in DaemonIds :
        /\ Cardinality(ConnsOf(d, {"eval"})) <= 1
        /\ IsPrefix(obs.evaluated[d], AcceptedRequests(d))

\* C8 witness: a daemon has accepted two requests, answered the first and is
\* evaluating the second.
C8_Witness ==
    \E d \in DaemonIds :
        /\ Len(obs.accepted[d]) = 2 /\ Len(obs.evaluated[d]) = 2
        /\ conns[obs.evaluated[d][1]].st = "closed"
        /\ conns[obs.evaluated[d][2]].st = "eval"

\* C9: Shutdown is idempotent: over sequential and concurrent Shutdown calls
\* shuttingDown only ever changes from false to true, and closing the
\* listener, removing the socket file, removing the pidfile and closing the
\* evaluator are each performed at most once per daemon.
C9_ShutdownOnce ==
    /\ [](\A d \in DaemonIds :
            /\ obs.teardown[d].close <= 1 /\ obs.teardown[d].rmsock <= 1
            /\ obs.teardown[d].rmpid <= 1 /\ obs.teardown[d].evclose <= 1)
    /\ [][\A d \in DaemonIds : daemon[d].shuttingDown => daemon'[d].shuttingDown]_vars

\* C9 witness: Run's Shutdown and a direct Shutdown call on the same daemon
\* have both returned and each teardown step was performed once.
C9_Witness ==
    \E d \in DaemonIds :
        /\ \A w \in Callers : sdown[d][w] = "ret"
        /\ obs.teardown[d] = [close |-> 1, rmsock |-> 1, rmpid |-> 1, evclose |-> 1]

\* C11: for every non-empty working_dir and every path whose normalized
\* form equals working_dir or starts with working_dir and a separator, a
\* Write, Edit or NotebookEdit of it classifies to Allow; a path that is not
\* within the project (working_dir is only a string prefix of it, or it
\* leaves the project through ..) is never Allow.
C11_WithinProjectAllow ==
    /\ (FileOpDone /\ workDir # "" /\ EqualOrInside(Clean(TargetPath), workDir))
          => result.v = VerdictAllow
    /\ (FileOpDone /\ ~WithinProject(TargetPath)) => result.v # VerdictAllow

\* C11 witness: an Edit of a path that normalizes into the project is
\* allowed, with /proj as working_dir.
C11_Witness ==
    /\ FileOpDone /\ toolName = "Edit" /\ workDir = "/proj"
    /\ TargetPath = "/proj/sub/../a.go"
    /\ result = R(VerdictAllow, "Edit within project")

\* The positions of the non-empty segments of the command
NonEmptyParts == {i \in 1..Len(cmdParts) : TrimSpace(cmdParts[i]) # ""}

\* C18 (segment combination): for every compound command in which the
\* pipe-to-interpreter rule does not fire, the verdict of the command is the
\* maximum of the verdicts of its non-empty segments under the order
\* Allow < Ask < Uncertain.
C18_MaxOverSegments ==
    (BashDone /\ ~HasLaterInterpreter /\ NonEmptyParts # {})
        => result.v = Max({InIsolation(cmdParts[i]) : i \in NonEmptyParts})

\* C18 witness: an Ask, an Uncertain and an Allow segment, in this order,
\* give Uncertain with the reason of the Uncertain segment.
C18_Witness ==
    /\ BashDone /\ cmdParts = <<"sudo ls", "foo", "ls">>
    /\ result = R(VerdictUncertain, "unknown command: foo")

\* The key under which a file tool's tool_input carries the path
PathKey == IF toolName = "NotebookEdit" THEN "notebook_path" ELSE "file_path"

\* tool_input has a member under key
HasMember(key) == toolInput.kind = "object" /\ key \in DOMAIN toolInput.fields

\* The failures of C20: tool_input is not valid JSON; a Bash input whose
\* command is missing or empty; a file tool's input without its path member
\* or with a path value that is not a string; any other tool name.
EngineFailure ==
    \/ toolInput.kind = "invalid"
    \/ /\ toolName = "Bash"
       /\ toolInput.kind \in {"object", "null"}
       /\ \/ ~HasMember("command")
          \/ /\ toolInput.fields["command"].t = "string"
             /\ TrimSpace(toolInput.fields["command"].s) = ""
    \/ /\ toolName \in FileTools
       /\ toolInput.kind \in {"object", "null"}
       /\ \/ ~HasMember(PathKey)
          \/ toolInput.fields[PathKey].t # "string"
    \/ toolName \notin {"Bash"} \cup FileTools

\* C20: the rule engine encodes every failure as Uncertain, never Allow and
\* never Ask, with a non-empty reason.
C20_FailuresAreUncertain ==
    (rpc = "done" /\ EngineFailure)
        => result.v = VerdictUncertain /\ result.r # ""


(***************************************************************************)
(* Specification SpecTwice: EvaluateRules is called, and called again with *)
(* the same tool_name, tool_input and cwd.  The engine reads HOME from the *)
(* process environment on each call (os.Getenv in isSystemPath and in      *)
(* evaluateRm); the environment may change between the two calls.          *)
(***************************************************************************)
\* HOME is set to another value (or unset) between the calls.
Setenv(h) ==
    /\ rpc = "done"
    /\ h # home
    /\ home' = h
    /\ rpc' = "env"
    /\ UNCHANGED <<toolName, toolInput, workDir, cmdParts, result>>

\* The second call, result := EvaluateRules(tool_name, tool_input, cwd).
EvaluateAgain ==
    /\ rpc \in {"done", "env"}
    /\ result' = EvaluateRules(toolName, toolInput, workDir)
    /\ rpc' = "again"
    /\ UNCHANGED <<toolName, toolInput, workDir, home, cmdParts>>

NextTwice ==
    /\ \/ Evaluate
       \/ \E h \in Homes : Setenv(h)
       \/ EvaluateAgain
    /\ UNCHANGED sysVars

SpecTwice == InitRules /\ [][NextTwice]_vars

C12_SpawnOnlyOnConnectFailure ==
    /\ hook.pc = "spawn" => hook.sends = 0
    /\ hook.sends <= 1

\* How far a position inside sendDaemonRequest is from its return
C13_Pos == IF hook.pc = "dial" THEN 3 ELSE IF hook.pc = "send" THEN 2 ELSE 1

\* A bound on the number of steps the client can still take: the remaining
\* iterations of the retry loop, the spawn and the first attempt before it.
C13_Rank ==
    IF hook.pc = "exited" THEN 0
    ELSE IF hook.pc = "start" THEN 4 * RetryLimit + 8
    ELSE IF hook.pc = "spawn" THEN 4 * RetryLimit + 4
    ELSE IF ~hook.loop THEN 4 * RetryLimit + 4 + C13_Pos
    ELSE 4 * (RetryLimit - hook.i) + C13_Pos

\* C13: every invocation of the hook client terminates (each step it takes
\* brings it strictly closer to its exit, so it takes finitely many), its
\* exit status is 0, and it makes at most one companion spawn and at most
\* 11 request attempts (one initial attempt and 10 polls).
C13_TerminatesWithZero ==
    /\ [][C13_Rank' < C13_Rank]_vars
    /\ [](C13_Rank >= 0)
    /\ [](hook.pc = "exited" => hook.code = 0)
    /\ [](hook.spawns <= 1 /\ hook.dials <= 11)

\* C13 witness: an invocation whose verdict was Uncertain has exited with
\* status 0 after the spawn and all 11 attempts, without output.
C13_Witness ==
    /\ hook.pc = "exited" /\ hook.code = 0 /\ result.v = VerdictUncertain
    /\ hook.spawns = 1 /\ hook.dials = 11 /\ hook.out = 0

\* The skip set as C14 lists it
C14_SkipSet ==
    {"ExitPlanMode", "EnterPlanMode", "AskUserQuestion", "TaskCreate", "TaskUpdate",
     "TaskList", "TaskGet", "TaskStop", "TaskOutput", "Read", "Glob", "Grep",
     "WebFetch", "WebSearch", "Task", "Skill"}

\* C14 (skip-set passthrough): for a tool of the skip set, with any
\* tool_input and cwd, the client exits 0 with empty output, without having
\* called the rule engine, used the socket, spawned a companion or written a
\* decision-log record; for Bash, Write, Edit and NotebookEdit the rule
\* engine is called.
C14_SkipSetPassthrough ==
    /\ (hook.stdin = "ok" /\ toolName \in C14_SkipSet /\ hook.pc \notin {"off", "start"})
          => /\ hook.pc = "exited" /\ hook.code = 0 /\ hook.out = 0
             /\ result = NoResult
             /\ hook.dials = 0 /\ hook.sends = 0 /\ hook.spawns = 0
             /\ hook.logs = 0
    /\ (/\ hook.stdin = "ok"
        /\ toolName \in {"Bash", "Write", "Edit", "NotebookEdit"}
        /\ hook.pc \notin {"off", "start"})
          => result # NoResult

\* C14 witness: the client has exited on a Read of /etc/hosts.
C14_Witness ==
    /\ hook.pc = "exited" /\ hook.stdin = "ok" /\ toolName = "Read"
    /\ toolInput = JObject("file_path" :> JStr("/etc/hosts"))
    /\ hook.out = 0 /\ hook.logs = 0 /\ result = NoResult


\* C17: whenever a call of Shutdown on a started daemon has returned,
\* whoever made it and however the calls interleave, the daemon's socket
\* file and its pidfile no longer exist.
C17_ShutdownReturnRemovesFiles ==
    \A d \in DaemonIds, w \in Callers :
        sdown[d][w] = "ret" => (fsSock # d /\ fsPid # d)


\* The handler of connection c answers in this step
C15_Answers(c) == conns[c].st \in {"handle", "eval"} /\ conns'[c].st = "closed"

\* The request on connection c could not be decoded, or the evaluator
\* returned an error for it
C15_Failed(c) == conns[c].kind = "garbage" \/ conns[c].ret = "err"

\* C15: when the request on an accepted connection cannot be decoded or the
\* evaluator returns an error, the reply carries the decision ASK and a
\* non-empty reason, and the step that sends it leaves the daemon as it
\* was: serving, its listener open behind the socket path, the accept loop
\* free for the next connection.
C15_ErrorsAnswerAsk ==
    /\ [](\A c \in Clients :
            (conns[c].st = "closed" /\ C15_Failed(c))
                => (conns[c].resp = "ASK" /\ conns[c].why \notin {"", "none"}))
    /\ [][\A c \in Clients :
            (C15_Answers(c) /\ C15_Failed(c)')
                => /\ daemon'[conns[c].d].pc = daemon[conns[c].d].pc
                   /\ daemon'[conns[c].d].listener = daemon[conns[c].d].listener
                   /\ daemon'[conns[c].d].shuttingDown = daemon[conns[c].d].shuttingDown
                   /\ UNCHANGED <<fsSock, fsPid, backlog, sdown>>
                   /\ LoopFree(conns[c].d)']_vars

\* C15 witness: daemon d1 answered ASK to c1, whose request did not decode,
\* then accepted c2, whose evaluation failed, answered ASK again, and is
\* still serving.
C15_Witness ==
    /\ obs.accepted["d1"] = <<"c1", "c2">>
    /\ conns["c1"].st = "closed" /\ conns["c1"].kind = "garbage" /\ conns["c1"].resp = "ASK"
    /\ conns["c2"].st = "closed" /\ conns["c2"].ret = "err" /\ conns["c2"].resp = "ASK"
    /\ daemon["d1"].pc = "serve" /\ daemon["d1"].listener = "open" /\ fsSock = "d1"


\* C16 (idle shutdown): the idle timer is restarted on every accepted
\* connection; it expires only when a whole idle period has passed since
\* the last accept (or since the start), so a daemon whose connections keep
\* arriving within the period never idle-expires; and once it has expired
\* the daemon shuts down: its listener is closed, for good, and from then
\* on no dial to its socket succeeds.
C16_IdleShutdown ==
    /\ [][\A c \in Clients :
            (conns[c].st = "got" /\ conns'[c].st = "handle")
                => daemon'[conns[c].d].idle = 0]_vars
    /\ [][\A d \in IdleDaemons :
            (~daemon[d].fired /\ daemon'[d].fired) => obs'.quiet[d] >= IdleTimeout]_vars
    /\ \A d \in IdleDaemons :
          daemon[d].fired ~> (daemon[d].listener = "closed")
    /\ [][\A d \in IdleDaemons :
            daemon[d].listener = "closed"
                => /\ daemon'[d].listener = "closed"
                   /\ \A c \in Clients :
                         conns'[c] # conns[c] => conns'[c].st \notin {"pending", "got"}]_vars

\* C16 witness: d2 accepted a connection and served it, then stayed idle
\* for a whole period, expired and closed its listener; the second client
\* never got a connection.
C16_Witness ==
    /\ obs.accepted["d2"] = <<"c1">> /\ conns["c1"].st = "closed"
    /\ daemon["d2"].fired /\ obs.quiet["d2"] = IdleTimeout
    /\ daemon["d2"].listener = "closed" /\ conns["c2"].st = "free"


(***************************************************************************)
(* Specification SpecSegment: the functions of the shell-command           *)
(* classifier applied to one command string: splitCompoundCommand to a    *)
(* text (rpc = "text"), extractBaseCommand with extractArgs to a segment   *)
(* (rpc = "segment"), EvaluateRules to a Bash command (rpc = "build").     *)
(* The texts are all strings of up to MaxChars characters over the         *)
(* characters the splitter distinguishes; the commands are argument lists  *)
(* of up to MaxArgs words for the commands that have a sub-policy.         *)
(***************************************************************************)
MaxChars == 5

MaxArgs == 3

QuoteAlphabet == {"a", "'", "\"", "&", "|", ";"}

QuoteCommands ==
    UNION {{JoinStr(f, "") : f \in [1..n -> QuoteAlphabet]} : n \in 0..MaxChars}

\* The command made of the words of `head` followed by up to MaxArgs words
\* of `tokens`, in every order
ArgCommands(head, tokens) ==
    UNION {{JoinStr(head \o f, " ") : f \in [1..n -> tokens]} : n \in 0..MaxArgs}

GitPushTokens == {"--force", "-f", "--force-with-lease", "--delete", "-d", "-u",
                  "origin", "Main", "x:MASTER", "feature"}

\* Pushes that force-update or delete main or master, in the ways git
\* accepts: a force or delete flag, a + before the refspec, an empty source.
ProtectedPushes ==
    {"git push --force origin main", "git push -f origin MASTER",
     "git push --force-with-lease origin main", "git push --delete origin master",
     "git push -d origin Main", "git push -f origin src:main",
     "git push --force-with-lease=main:abc123 origin main",
     "git push origin +main", "git push origin +dev:master", "git push origin :main",
     "git push -f origin refs/heads/main", "git push -f origin HEAD:refs/heads/master",
     "git push --delete origin refs/heads/main"}

\* Arguments of rm: recursion flags in two spellings, a flag without
\* recursion, and targets inside the project, outside it, and dangerous ones
RmTokens == {"-rf", "-R", "-f", "~", "/etc", "/home/u", "../x", "build", "/tmp/x"}

ChmodTokens == {"-R", "--recursive", "777", "a+rwx", "755", "+x", "f"}

\* Segments run through the env wrapper: assignments, the wrapper written
\* bare or with its path, assignments, then a command and its arguments.
EnvWrappers == {"env", "/usr/bin/env"}

EnvWrapped == {"ls -l", "sudo ls", "foo x", "/bin/dd x", "bash -c x", "python3 x"}

EnvCommands ==
    {pre \o e \o mid \o " " \o c :
        pre \in {"", "A=1 ", "A=1 B=2 "}, e \in EnvWrappers, mid \in {"", " X=y"},
        c \in EnvWrapped}

\* The same segments downstream of a pipe
PipedEnvCommands == {"ls | " \o c : c \in EnvCommands}

RmCommands == ArgCommands(<<"rm">>, RmTokens)

SegmentCommands ==
    ArgCommands(<<"git", "push">>, GitPushTokens) \cup ProtectedPushes
        \cup RmCommands \cup ArgCommands(<<"chmod">>, ChmodTokens)
        \cup EnvCommands \cup PipedEnvCommands

\* The working directories of a command: rm is also run without one
SegmentWorkDirs(c) == IF c \in RmCommands THEN {"/proj", ""} ELSE {"/proj"}

SegmentInit ==
    /\ result = NoResult
    /\ toolName = "Bash"
    /\ home = "/home/u"
    /\ cmdParts = <<>>
    /\ \/ /\ rpc = "text"
          /\ workDir = "/proj"
          /\ \E c \in QuoteCommands : toolInput = BashInput(c)
       \/ /\ rpc = "build"
          /\ \E c \in SegmentCommands :
                /\ toolInput = BashInput(c)
                /\ workDir \in SegmentWorkDirs(c)
       \/ /\ rpc = "segment"
          /\ workDir = "/proj"
          /\ \E c \in EnvCommands : toolInput = BashInput(c)

\* The call cmdParts := splitCompoundCommand(command).
Split ==
    /\ rpc = "text"
    /\ cmdParts' = splitCompoundCommand(CommandOf(toolInput))
    /\ rpc' = "split"
    /\ UNCHANGED <<toolName, toolInput, workDir, home, result>>

\* The calls extractBaseCommand(command) and extractArgs(command): cmdParts
\* becomes the base command followed by the arguments.
Extract ==
    /\ rpc = "segment"
    /\ cmdParts' = <<extractBaseCommand(CommandOf(toolInput))>>
                      \o extractArgs(CommandOf(toolInput))
    /\ rpc' = "base"
    /\ UNCHANGED <<toolName, toolInput, workDir, home, result>>

InitSegment == SegmentInit /\ hook = HookOff /\ DaemonsOff

NextSegment ==
    /\ \/ Split
       \/ Extract
       \/ Evaluate
    /\ UNCHANGED sysVars

SpecSegment == InitSegment /\ [][NextSegment]_vars

\* Shell quoting without escapes: the quote state after the first i
\* characters of s ("none", "single" or "double").
RECURSIVE C21_Quote(_, _)
C21_Quote(s, i) ==
    IF i = 0 THEN "none"
    ELSE IF C21_Quote(s, i - 1) = "none"
         THEN (IF Ch(s, i) = "'" THEN "single"
               ELSE IF Ch(s, i) = "\"" THEN "double" ELSE "none")
    ELSE IF C21_Quote(s, i - 1) = "single"
         THEN (IF Ch(s, i) = "'" THEN "none" ELSE "single")
    ELSE (IF Ch(s, i) = "\"" THEN "none" ELSE "double")

\* Position p of s holds the character ch outside any quotes
C21_Outside(s, p, ch) == Ch(s, p) = ch /\ C21_Quote(s, p - 1) = "none"

\* The offset of position p in its maximal run of the character ch
C21_RunOffset(s, p, ch) ==
    p - Min({r \in 1..p : \A j \in r..p : Ch(s, j) = ch})

\* The positions where an operator outside quotes starts: every ;, every
\* other | of a run of | (|| taken before |), every first & of a pair.
C21_OpStarts(s) ==
    {p \in 1..Len(s) :
        \/ C21_Outside(s, p, ";")
        \/ C21_Outside(s, p, "|") /\ C21_RunOffset(s, p, "|") % 2 = 0
        \/ /\ C21_Outside(s, p, "&") /\ C21_RunOffset(s, p, "&") % 2 = 0
           /\ p < Len(s) /\ Ch(s, p + 1) = "&"}

\* The positions of the operators' characters
C21_OpChars(s) ==
    C21_OpStarts(s)
      \cup {p \in 2..Len(s) : p - 1 \in C21_OpStarts(s) /\ Ch(s, p) = Ch(s, p - 1)
                                 /\ Ch(s, p) \in {"&", "|"}}

\* s without its operators' characters
C21_Kept(s) ==
    LET idx == SortedSeq((1..Len(s)) \ C21_OpChars(s))
    IN  JoinStr([k \in 1..Len(idx) |-> Ch(s, idx[k])], "")

\* C21 (quote protection): splitCompoundCommand splits at every &&, ||, ;
\* and | outside quotes and nowhere else: the segments are the command's
\* text between those operators, quote characters included; no segment but
\* the last ends inside quotes, none contains an operator outside quotes;
\* and a quote character inside quotes of the other kind does not change
\* the quote state.
C21_QuoteProtection ==
    rpc = "split" =>
        /\ JoinStr(cmdParts, "") = C21_Kept(CommandOf(toolInput))
        /\ Len(cmdParts) = Cardinality(C21_OpStarts(CommandOf(toolInput)))
              + (IF /\ CommandOf(toolInput) # ""
                    /\ Len(CommandOf(toolInput)) \notin C21_OpChars(CommandOf(toolInput))
                 THEN 1 ELSE 0)
        /\ \A k \in 1..Len(cmdParts) :
              /\ C21_OpStarts(cmdParts[k]) = {}
              /\ k < Len(cmdParts) => C21_Quote(cmdParts[k], Len(cmdParts[k])) = "none"

\* C21 witness: a | between single quotes did not split, the ; after the
\* closing quote did, and the quotes are in the first segment.
C21_Witness ==
    /\ rpc = "split" /\ CommandOf(toolInput) = "'|';a"
    /\ cmdParts = <<"'|'", "a">>


\* The Bash command of a finished EvaluateRules call starts with the words
\* of `head`
CommandIs(head) ==
    /\ rpc = "done" /\ toolName = "Bash"
    /\ Len(Fields(CommandOf(toolInput))) >= Len(head)
    /\ SubSeq(Fields(CommandOf(toolInput)), 1, Len(head)) = head

\* The words of the command after its first n words
ArgsOfCommand(n) == Drop(Fields(CommandOf(toolInput)), n)

C22_Flags == {"--force", "-f", "--force-with-lease", "--delete", "-d"}

\* The arguments of args that are not flags
C22_Positionals(args) == SelectSeq(args, LAMBDA a : ~HasPrefix(a, "-"))

\* main or master in any letter case, or anything ending in :main or :master
C22_Protected(a) ==
    \/ ToLower(a) \in {"main", "master"}
    \/ HasSuffix(ToLower(a), ":main") \/ HasSuffix(ToLower(a), ":master")

\* The decision table of C22
C22_Table(args) ==
    IF \A i \in 1..Len(args) : args[i] \notin C22_Flags THEN VerdictAllow
    ELSE IF \E i \in 1..Len(args) : ~HasPrefix(args[i], "-") /\ C22_Protected(args[i])
    THEN VerdictAsk
    ELSE IF Len(C22_Positionals(args)) >= 2 THEN VerdictAllow
    ELSE VerdictUncertain

\* C22 (git push decision table): for every argument list in any order,
\* git push is Allow when no force or delete flag is present; otherwise Ask
\* when some positional names main or master; otherwise Allow with at least
\* two positionals and Uncertain with fewer.
C22_GitPushTable ==
    CommandIs(<<"git", "push">>) => result.v = C22_Table(ArgsOfCommand(2))

\* C22 witness: the protected ref before the remote and the flag last
C22_Witness ==
    /\ rpc = "done" /\ CommandOf(toolInput) = "git push x:MASTER origin -f"
    /\ result = R(VerdictAsk, "git push --force to x:MASTER")


\* C23: a git push that force-updates or deletes main or master, however
\* the force or delete and the destination are written, is never Allow.
C23_ProtectedPushNotAllowed ==
    (rpc = "done" /\ toolName = "Bash" /\ CommandOf(toolInput) \in ProtectedPushes)
        => result.v # VerdictAllow


\* ---- C24 ----

\* A recursion flag of rm: a flag containing r or R
C24_Recursive(args) ==
    \E i \in 1..Len(args) :
        HasPrefix(args[i], "-") /\ (Contains(args[i], "r") \/ Contains(args[i], "R"))

C24_Targets(args) == SelectSeq(args, LAMBDA a : ~HasPrefix(a, "-"))

\* A target the claim lists: the home directory written ~ or in full, the
\* root, a system directory, a path with a parent step, or a path that
\* resolves outside a set working directory
C24_Dangerous(t) ==
    \/ t \in {"~", "/", "/etc", "/usr", "/var", "/home", "/Users", home}
    \/ Contains(t, "..")
    \/ workDir # "" /\ ~isWithinDir(AbsOf(t, workDir), workDir)

\* C24: an rm with a recursion flag is Ask when some target is ~, /, a
\* system directory, the home directory, contains "..", or resolves outside
\* the working directory, and Allow only when no target is any of these.
C24_DangerousRmAsks ==
    (CommandIs(<<"rm">>) /\ C24_Recursive(ArgsOfCommand(1))) =>
        result.v = (IF \E i \in 1..Len(C24_Targets(ArgsOfCommand(1))) :
                          C24_Dangerous(C24_Targets(ArgsOfCommand(1))[i])
                    THEN VerdictAsk ELSE VerdictAllow)


\* ---- C25 ----

C25_WorldWritable(args) == \E i \in 1..Len(args) : args[i] \in {"777", "a+rwx"}

C25_Recursive(args) == \E i \in 1..Len(args) : args[i] \in {"-R", "--recursive"}

\* C25: chmod with an argument 777 or a+rwx is Ask when -R or --recursive
\* is anywhere among the arguments and Uncertain when it is not; chmod
\* without such an argument is Allow.
C25_ChmodPolicy ==
    CommandIs(<<"chmod">>) =>
        result.v = (IF ~C25_WorldWritable(ArgsOfCommand(1)) THEN VerdictAllow
                    ELSE IF C25_Recursive(ArgsOfCommand(1)) THEN VerdictAsk
                    ELSE VerdictUncertain)


\* ---- C26 ----

\* C26 (Allow-soundness): a compound command is Allow only if each of its
\* non-empty segments is Allow in isolation and no segment after the first
\* has an interpreter as base command.
C26_AllowSoundness ==
    (BashDone /\ result.v = VerdictAllow)
        => /\ \A i \in NonEmptyParts : InIsolation(cmdParts[i]) = VerdictAllow
           /\ ~HasLaterInterpreter

\* C26 witness: three segments, one of them empty and one with a quoted
\* operator, all Allow; the command is Allow.
C26_Witness ==
    /\ BashDone /\ cmdParts = <<"ls", "", "echo 'a|b'">>
    /\ result.v = VerdictAllow
    /\ \A i \in NonEmptyParts : InIsolation(cmdParts[i]) = VerdictAllow


\* ---- C27 ----

\* The command without its env wrapper: the words that are neither an
\* assignment nor the wrapper (no command of EnvWrapped has such a word)
C27_Bare(command) ==
    JoinStr(SelectSeq(Fields(command),
                      LAMBDA w : ~Contains(w, "=") /\ w \notin EnvWrappers), " ")

\* C27 (env-wrapper transparency): a segment run through env, written bare
\* or path-qualified, with assignments before and after the wrapper, has the
\* base name of the wrapped command as base command and the verdict of the
\* wrapped command alone, also downstream of a pipe.
C27_EnvTransparent ==
    /\ rpc = "base" =>
          cmdParts[1] = Base(Fields(C27_Bare(CommandOf(toolInput)))[1])
    /\ (rpc = "done" /\ CommandOf(toolInput) \in EnvCommands \cup PipedEnvCommands) =>
          result.v = EvaluateRules("Bash", BashInput(C27_Bare(CommandOf(toolInput))),
                                   workDir).v


\* ---- C28 ----

\* C28: the os.Remove calls of a daemon's Shutdown never delete the socket
\* file or the pidfile that a different daemon has created in the meantime.
C28_ShutdownRemovesOwnFiles ==
    [][\A d \in DaemonIds, w \in Callers :
          /\ (sdown[d][w] = "rmsock" /\ sdown'[d][w] = "rmpid")
                => fsSock \notin DaemonIds \ {d}
          /\ (sdown[d][w] = "rmpid" /\ sdown'[d][w] = "evclose")
                => fsPid \notin DaemonIds \ {d}]_vars


\* ---- C29 ----

\* C29: one invocation of the client delivers its request to a companion at
\* most once, and writes the allow document for a companion's ALLOW only
\* when that reply came from its only exchange (no earlier exchange failed).
C29_EvaluatedAtMostOnce ==
    /\ hook.delivered <= 1
    /\ (hook.out = 1 /\ result.v = VerdictUncertain) => hook.sends = 1


\* ---- C30 ----

\* The connections of daemon d whose handler has decoded a request
C30_Decoded(d) ==
    {c \in ConnIds : conns[c].d = d /\ conns[c].kind = "request"
                        /\ conns[c].st \in {"eval", "closed"}}

\* C30: a daemon calls its evaluator exactly once for each connection whose
\* request its handler decoded and never for a probe or for bytes that do
\* not decode, so that the number of calls is the number of decoded
\* requests; the reply to a request is the decision and the reason the
\* evaluator returned.
C30_EvaluatedOncePerRequest ==
    /\ \A d \in DaemonIds :
          /\ \A i \in 1..Len(obs.evaluated[d]) :
                /\ conns[obs.evaluated[d][i]].kind = "request"
                /\ conns[obs.evaluated[d][i]].d = d
                /\ \A j \in 1..Len(obs.evaluated[d]) :
                      obs.evaluated[d][i] = obs.evaluated[d][j] => i = j
          /\ \A c \in C30_Decoded(d) :
                \E i \in 1..Len(obs.evaluated[d]) : obs.evaluated[d][i] = c
          /\ ConnsOf(d, {"dropped"}) = {}
                => Len(obs.evaluated[d]) = Cardinality(C30_Decoded(d))
    /\ \A c \in ConnIds :
          (conns[c].st = "closed" /\ conns[c].kind = "request" /\ conns[c].ret # "err")
              => (conns[c].resp = conns[c].ret /\ conns[c].why = "evaluator")

\* C30 witness: daemon d1 accepted a request, the probe of d2's Run and a
\* second request; it evaluated the two requests and answered each with the
\* evaluator's decision.
C30_Witness ==
    /\ obs.accepted["d1"] = <<"c1", "d2", "c2">>
    /\ obs.evaluated["d1"] = <<"c1", "c2">>
    /\ conns["d2"].kind = "probe" /\ conns["d2"].st = "closed"
    /\ conns["c1"].st = "closed" /\ conns["c1"].ret = "ALLOW" /\ conns["c1"].resp = "ALLOW"
    /\ conns["c2"].st = "closed" /\ conns["c2"].ret = "ASK" /\ conns["c2"].resp = "ASK"

====
